---------------------------- MODULE Spec2Model ----------------------------
(***************************************************************************)
(* The commitment bots of NotJohn04/aislavery: event_manager_bot.py,       *)
(* task_manager_bot.py, habit_tracker_bot.py, bot.py (the combined bot)    *)
(* and aislavery.py.  One behaviour is one run of ONE of these programs    *)
(* (variable bot, fixed by Init).  Every handler and every scheduler       *)
(* callback is one action.  The Google calls (.execute()) are synchronous  *)
(* and the handlers await only when they talk to Telegram, at their start  *)
(* and at their end, so a handler's read-modify-write of the sheet is one  *)
(* atomic step of the asyncio loop.                                        *)
(*                                                                         *)
(* Time is in minutes.  Descriptions and texts are sequences of tokens.    *)
(* An optional value (Python None) is the empty sequence << >>, a present  *)
(* value x is << x >>.                                                     *)
(***************************************************************************)
EXTENDS Integers, Sequences, FiniteSets, Bags, TLC

(***************************************************************************)
(* Bounds of the model.                                                    *)
(***************************************************************************)
\* the clock runs to MaxTime minutes
MaxTime == 120
\* rows the sheet may hold
MaxRows == 2
\* outcome prompts that may be on screen at once
MaxPrompts == 2
\* tokens of a text handed to the parsers on their own
MaxLen == 3

(***************************************************************************)
(* Program constants.                                                      *)
(***************************************************************************)
\* the clock's grain when no job is waiting
Step == 60
\* timedelta(minutes=30): a task's reminder comes this long before it is due
TASK_REMINDER_LEAD == 30
\* timedelta(hours=1): the auto-update comes this long after the event check
AUTO_UPDATE_GRACE == 60
\* timedelta(minutes=duration + 30): the habit tracker's extra wait
HABIT_CHECK_EXTRA == 30
\* return 60  # Default duration in minutes
DEFAULT_DURATION == 60

END == "END"
CONFIRMATION == "CONFIRMATION"

Bots == {"event_manager", "task_manager", "habit_tracker", "bot", "aislavery"}

VARIABLES
    bot,            \* which program this run is
    now,            \* the clock, minutes
    state,          \* the ConversationHandler's state of the user's chat
    user_data,      \* context.user_data: << >> or << the pending draft >>
    calendar,       \* ids of the events in Google Calendar
    ledger,         \* the rows of the spreadsheet, in append order
    jobs,           \* the APScheduler job table
    prompts,        \* the outcome prompts on screen that still carry buttons
    reply,          \* the last message a handler sent to the user
    USER_CHAT_IDS   \* the chats that sent /start (habit checks go to them)

vars == <<bot, now, state, user_data, calendar, ledger, jobs, prompts, reply,
          USER_CHAT_IDS>>

(***************************************************************************)
(* Texts.  A text is a sequence of tokens; a token is a record             *)
(*   k    = "word"  a plain word w                                         *)
(*          "stop"  one of the verbs set / schedule                        *)
(*          "now"   an immediacy keyword w (now, right now, immediately)   *)
(*          "date"  a phrase w that dateparser resolves to the minute n    *)
(*          "dur"   the phrase  <pre> n <unit>,  pre in for/in/lasting/    *)
(*                  last or "" (bare), followed by "long" when w = "long"  *)
(***************************************************************************)
Word(w)  == [k |-> "word", w |-> w, n |-> 0, pre |-> "", unit |-> ""]
Stop(w)  == [k |-> "stop", w |-> w, n |-> 0, pre |-> "", unit |-> ""]
Kw(w)    == [k |-> "now",  w |-> w, n |-> 0, pre |-> "", unit |-> ""]
Date(w, t) == [k |-> "date", w |-> w, n |-> t, pre |-> "", unit |-> ""]
Dur(pre, n, unit) == [k |-> "dur", w |-> "", n |-> n, pre |-> pre, unit |-> unit]

\* hours?|hrs?|minutes?|mins?  : the unit spellings every pattern list has
LongUnits == {"hours", "minutes"}
HourUnits == {"hours", "h"}

RECURSIVE Flatten(_)
Flatten(ss) == IF ss = << >> THEN << >> ELSE Head(ss) \o Flatten(Tail(ss))

\* the indices i of s with Test(s[i]), in order
SelectIdx(s, Test(_)) ==
    SelectSeq([i \in 1..Len(s) |-> i], LAMBDA i : Test(s[i]))

\* len(description.split()): the whitespace-delimited words of a token
Words(tok) == IF tok.k = "dur"
              THEN (IF tok.pre = "" THEN 2 ELSE 3) + (IF tok.w = "long" THEN 1 ELSE 0)
              ELSE 1
RECURSIVE SplitLen(_)
SplitLen(d) == IF d = << >> THEN 0 ELSE Words(Head(d)) + SplitLen(Tail(d))

(***************************************************************************)
(* extract_duration (event_manager_bot.py and bot.py, the same text).      *)
(* The patterns are tried in the order of the list: "for N unit", then the *)
(* bare "N unit [long|duration]" (which also matches inside "in N unit"    *)
(* and "lasting N unit"), then "lasting N unit".  re.search gives the      *)
(* leftmost match of the pattern tried.                                    *)
(***************************************************************************)
\* float(match.group(1)) of a digit string beyond the range of a float: inf
Inf == 999999

ToMinutes(tok) == IF tok.unit \in HourUnits THEN tok.n * 60 ELSE tok.n

IsFor(tok)     == tok.k = "dur" /\ tok.pre = "for"
IsBare(tok)    == tok.k = "dur"
IsLasting(tok) == tok.k = "dur" /\ tok.pre = "lasting"

duration_patterns(text) ==
    << SelectIdx(text, IsFor), SelectIdx(text, IsBare),
       SelectIdx(text, IsLasting) >>

extract_duration(text) ==
    LET m == duration_patterns(text)
        hit == SelectIdx(m, LAMBDA x : x # << >>)
    IN  IF hit = << >> THEN DEFAULT_DURATION
        ELSE ToMinutes(text[Head(m[Head(hit)])])

\* int(num * 60) and int(num) raise OverflowError when num is inf
extract_duration_raises(text) ==
    LET m == duration_patterns(text)
        hit == SelectIdx(m, LAMBDA x : x # << >>)
    IN  /\ \E i \in 1..Len(text) : text[i].n = Inf
        /\ hit # << >> /\ text[Head(m[Head(hit)])].n = Inf

(***************************************************************************)
(* search_dates(text, languages=['en'], settings=...): the date phrases of *)
(* the text in order, each with the time dateparser resolves it to.        *)
(***************************************************************************)
search_dates(text) ==
    LET idx == SelectIdx(text, LAMBDA tok : tok.k = "date")
    IN  [i \in 1..Len(idx) |-> text[idx[i]]]

\* re.sub(re.escape(dt_text), '', text): every occurrence of the phrase goes
RemoveText(text, w) == SelectSeq(text, LAMBDA tok : ~(tok.k = "date" /\ tok.w = w))

(***************************************************************************)
(* parse_natural_language of event_manager_bot.py and bot.py.              *)
(***************************************************************************)
\* the units of the last (bare) removal pattern: bot.py has no "m" there
BareStripUnits(b) == IF b = "event_manager" THEN LongUnits \cup {"m"} ELSE LongUnits

\* what the four re.sub calls leave of one token
StripDuration(tok, b) ==
    IF tok.k # "dur" THEN << tok >>
    ELSE IF tok.pre \in {"for", "in", "lasting"} /\ tok.unit \in LongUnits
         THEN (IF tok.w = "long" THEN << Word("long") >> ELSE << >>)
    ELSE IF tok.unit \in BareStripUnits(b)
         THEN (IF tok.pre = "" THEN << >> ELSE << Word(tok.pre) >>)
    ELSE << tok >>

RemoveDurations(text, b) ==
    Flatten([i \in 1..Len(text) |-> StripDuration(text[i], b)])

\* what the three re.sub calls of now_patterns leave of one token: \bnow\b
\* goes first, so of "right now" the word "right" stays
StripNow(tok) ==
    IF tok.k # "now" THEN << tok >>
    ELSE IF tok.w = "right now" THEN << Word("right") >>
    ELSE << >>

\* a variant for the properties: the first match, ahead or not
PickDate_first(date_times, t) == Head(date_times)

\* future_dates[0] when there is one, else date_times[0]
PickDate(date_times, t) ==
    LET future_dates == SelectSeq(date_times, LAMBDA d : d.n > t)
    IN  IF future_dates # << >> THEN Head(future_dates) ELSE Head(date_times)

\* a variant for the properties: every dated text is ambiguous
DateAmbiguous_always(date_times, t) == TRUE

DateAmbiguous(date_times, t) ==
    LET future_dates == SelectSeq(date_times, LAMBDA d : d.n > t)
    IN  IF future_dates # << >> THEN Len(future_dates) > 1 ELSE TRUE

\* "Mark as ambiguous if description is too short"
\* a variant for the properties: only the empty description is too short
TooShort_empty(description) == description = << >>

TooShort(description) == description = << >> \/ SplitLen(description) < 2

parse_natural_language(text, t, b) ==
    LET extracted_duration == extract_duration(text)
        duration_minutes == IF extracted_duration # 0 THEN extracted_duration
                            ELSE DEFAULT_DURATION
        text_cleaned == RemoveDurations(text, b)
        is_now == \E i \in 1..Len(text_cleaned) : text_cleaned[i].k = "now"
        date_times == search_dates(text_cleaned)
        picked == PickDate(date_times, t)
        event_datetime == IF is_now \/ date_times = << >> THEN t ELSE picked.n
        ambiguous0 == IF is_now THEN FALSE
                      ELSE IF date_times = << >> THEN TRUE
                      ELSE DateAmbiguous(date_times, t)
        rest == IF is_now
                THEN Flatten([i \in 1..Len(text_cleaned) |-> StripNow(text_cleaned[i])])
                ELSE IF date_times = << >> THEN text_cleaned
                ELSE RemoveText(text_cleaned, picked.w)
        event_description == SelectSeq(rest, LAMBDA tok : tok.k # "stop")
    IN  [description |-> event_description,
         datetime    |-> event_datetime,
         duration    |-> duration_minutes,
         ambiguous   |-> ambiguous0 \/ TooShort(event_description)]

(***************************************************************************)
(* parse_natural_language of task_manager_bot.py.                          *)
(***************************************************************************)
TaskStripUnits == {"hours", "minutes", "m"}

StripTaskDuration(tok) ==
    IF tok.k = "dur" /\ tok.pre \in {"for", "last"} /\ tok.unit \in TaskStripUnits
    THEN (IF tok.w = "long" THEN << Word("long") >> ELSE << >>)
    ELSE << tok >>

\* a variant for the properties: only a short description makes it ambiguous
parse_task_language_unflagged(text, t) ==
    LET date_times == search_dates(text)
        due_date == IF date_times # << >> THEN Head(date_times).n ELSE t
        text1 == IF date_times # << >> THEN RemoveText(text, Head(date_times).w)
                 ELSE text
        task_description == Flatten([i \in 1..Len(text1) |-> StripTaskDuration(text1[i])])
    IN  [description |-> task_description,
         due_date    |-> due_date,
         ambiguous   |-> TooShort(task_description)]

parse_task_language(text, t) ==
    LET date_times == search_dates(text)
        due_date == IF date_times # << >> THEN Head(date_times).n ELSE t
        text1 == IF date_times # << >> THEN RemoveText(text, Head(date_times).w)
                 ELSE text
        task_description == Flatten([i \in 1..Len(text1) |-> StripTaskDuration(text1[i])])
    IN  [description |-> task_description,
         due_date    |-> due_date,
         ambiguous   |-> date_times = << >> \/ TooShort(task_description)]

(***************************************************************************)
(* parse_task_input of aislavery.py.  Dates are optional values.           *)
(***************************************************************************)
MINUTES_PER_DAY == 1440
DayOf(t) == t \div MINUTES_PER_DAY

parse_task_input(text, t) ==
    LET dates == search_dates(text)
        task_description == SelectSeq(text, LAMBDA tok : tok.k # "date")
        start_date == IF Len(dates) = 1 THEN << t >>
                      ELSE IF Len(dates) >= 2 THEN << dates[1].n >> ELSE << >>
        due_date == IF Len(dates) = 1 THEN << dates[1].n >>
                    ELSE IF Len(dates) >= 2 THEN << dates[2].n >> ELSE << >>
        duration_days == IF due_date # << >>
                         THEN << DayOf(due_date[1]) - DayOf(start_date[1]) >>
                         ELSE << >>
    IN  [description   |-> task_description,
         start_date    |-> start_date,
         due_date      |-> due_date,
         duration_days |-> duration_days,
         ambiguous     |-> dates = << >> \/
                           (duration_days # << >> /\ duration_days[1] < 0)]

(***************************************************************************)
(* The inputs the user may send.                                           *)
(***************************************************************************)
call_mom == << Word("call"), Word("mom") >>
gym == << Word("gym") >>
Descriptions == {call_mom, gym}

\* /setevent <description> | <datetime> | <duration>
Structured(d, dt, n) ==
    [shape |-> "structured", description |-> d, datetime |-> dt, duration |-> n,
     text |-> << >>]
\* /setevent <free text>     (an empty text: the bare command)
Free(text) ==
    [shape |-> "text", description |-> << >>, datetime |-> << >>, duration |-> 0,
     text |-> text]

at_1 == Date("at 1:00", 60)
at_1_30 == Date("at 1:30", 90)

EventTexts ==
    { << >>,
      call_mom \o << at_1, Dur("for", 60, "minutes") >>,
      call_mom,
      << at_1 >> }

EventCommands ==
    { Structured(call_mom, << >>, 60),
      Structured(gym, << 0 >>, 60) }
    \cup {Free(text) : text \in EventTexts}

\* the replies to a confirmation question, as typed
Replies == {"yes", " Yes ", "yeah", "no", "nope", "maybe"}
\* update.message.text.strip().lower()
StripLower(r) == IF r = " Yes " THEN "yes" ELSE r

\* the external services a handler calls can fail
Faults == {"none", "calendar", "sheets"}

(***************************************************************************)
(* The scheduler (APScheduler, in-memory job store).                       *)
(* A job: fn the callback, ev / description / due its arguments, key the   *)
(* part of the id that is neither, run_time its DateTrigger, row the sheet *)
(* row of the commitment it was registered for (0: none).                  *)
(***************************************************************************)
Job(fn, ev, d, key, run_time, due, row) ==
    [fn |-> fn, ev |-> ev, description |-> d, key |-> key, run_time |-> run_time,
     due |-> due, row |-> row]

\* the id= argument of add_job
JobId(j) ==
    << (IF j.fn = "send_event_check" THEN ""
        ELSE IF j.fn = "auto_update_event_status" THEN "auto_update_"
        ELSE IF j.fn = "send_task_reminder" THEN "task_reminder_"
        ELSE IF j.fn = "send_habit_check" THEN "habit_check_"
        ELSE "habit_"),
       j.ev, j.description, j.key >>

\* the last part of a habit creation job's id: the date, or one of
DAILY == 0          \* f"habit_{habit['description']}_{freq}"
TEST_DATE == -1     \* "habit_Test_Habit_test_date"

\* the job table once j has run or was missed: a date job is gone, a cron job
\* (bot.py's daily habits) waits for the next day
after_run(js, j) ==
    IF j.fn = "create_habit_event" /\ j.key = DAILY
    THEN (js \ {j}) \cup {[j EXCEPT !.run_time = @ + MINUTES_PER_DAY]}
    ELSE js \ {j}

\* scheduler.get_job(id)
get_job(js, id) == {j \in js : JobId(j) = id}

\* scheduler.add_job raises ConflictingIdError when the id is taken
Conflicts(js, j) == get_job(js, JobId(j)) # {}
add_job(js, j) == js \cup {j}

\* scheduler.remove_job(id); JobLookupError when there is none
remove_job(js, id) == js \ get_job(js, id)

(***************************************************************************)
(* The sheet.  A row: sheet the tab, when the date and time columns, ev    *)
(* the Event ID column (0 on the Tasks tab, which has none).               *)
(***************************************************************************)
Row(sheet, d, status, when, ev) ==
    [sheet |-> sheet, description |-> d, status |-> status, when |-> when, ev |-> ev]

Terminal == {"Done", "Missed", "Cancelled"}

\* the first row of the tab that satisfies Test, as a set of at most one index
FirstRow(rows, Test(_)) ==
    LET hits == {i \in 1..Len(rows) : Test(rows[i])}
    IN  IF hits = {} THEN {} ELSE {CHOOSE i \in hits : \A k \in hits : i <= k}

SetStatus(rows, i, status) == [rows EXCEPT ![i].status = status]

\* created_event.get('id'): the calendar service gives every event a fresh id
NewEventId == Cardinality(calendar) + 1

\* a prompt with buttons: the callback data it carries, and the row it asks about
Prompt(kind, ev, d, due, row) ==
    [kind |-> kind, ev |-> ev, description |-> d, due |-> due, row |-> row]
PromptCount == BagCardinality(prompts)

HasEvents == bot = "event_manager"

\* the event loop runs a job whose time has come before it takes the next update
Idle == \A j \in jobs : j.run_time > now

\* the rows the scheduler is still to append before the clock stops
Reserved ==
    Cardinality({j \in jobs : j.fn = "create_habit_event"
                              /\ j.run_time <= MaxTime})

\* room for one more commitment of the user's
Room == Len(ledger) + Reserved < MaxRows /\ Cardinality(calendar) < MaxRows

(***************************************************************************)
(* Events: event_manager_bot.py, and the same code in bot.py.              *)
(***************************************************************************)
\* Variants the properties must tell from the code: a habit check with no
\* extra wait, and a create_event that registers its job whatever failed.
habit_reminder_time_without_extra(t, duration) == t + duration
create_event_jobs_unguarded(fault, job) == add_job(jobs, job)

\* reminder_time = event_datetime + timedelta(minutes=duration_minutes)
event_reminder_time(event_datetime, duration_minutes) ==
    event_datetime + duration_minutes

\* the job table after the try block of create_event
create_event_jobs(fault, job) ==
    IF fault = "none" /\ ~Conflicts(jobs, job) THEN add_job(jobs, job) ELSE jobs

create_event(event_description, event_datetime, duration_minutes, fault) ==
    LET event_id == NewEventId
        row == Row("Events", event_description, "Pending", event_datetime, event_id)
        job == Job("send_event_check", event_id, event_description, 0,
                   event_reminder_time(event_datetime, duration_minutes), 0,
                   Len(ledger) + 1)
    IN  /\ calendar' = IF fault = "calendar" THEN calendar
                       ELSE calendar \cup {event_id}
        /\ ledger' = IF fault = "none" THEN Append(ledger, row) ELSE ledger
        /\ jobs' = create_event_jobs(fault, job)
        /\ reply' = IF fault = "none" /\ ~Conflicts(jobs, job) THEN "created"
                    ELSE "creation_failed"

Draft(d, dt, n) == [description |-> d, datetime |-> dt, duration |-> n]

set_event(cmd) ==
    /\ HasEvents
    /\ Idle
    /\ state = END
    /\ UNCHANGED <<bot, now, calendar, ledger, jobs, prompts, USER_CHAT_IDS>>
    /\ IF cmd.shape = "text" /\ cmd.text = << >>
       THEN /\ reply' = "usage"
            /\ UNCHANGED <<state, user_data>>
       ELSE IF cmd.shape = "structured"
       THEN IF cmd.datetime = << >>
            THEN /\ reply' = "could_not_parse_date"
                 /\ UNCHANGED <<state, user_data>>
            ELSE /\ user_data' = << Draft(cmd.description, cmd.datetime[1],
                                          cmd.duration) >>
                 /\ reply' = "please_confirm"
                 /\ state' = CONFIRMATION
       ELSE IF extract_duration_raises(cmd.text)
       THEN /\ reply' = "error"
            /\ UNCHANGED <<state, user_data>>
       ELSE LET parsed == parse_natural_language(cmd.text, now, bot)
            IN  IF parsed.description = << >>
                THEN /\ reply' = "could_not_understand"
                     /\ UNCHANGED <<state, user_data>>
                ELSE /\ user_data' = << Draft(parsed.description, parsed.datetime,
                                              parsed.duration) >>
                     /\ reply' = "please_confirm"
                     /\ state' = CONFIRMATION

handle_confirmation(r, fault) ==
    /\ HasEvents
    /\ Idle
    /\ state = CONFIRMATION
    /\ UNCHANGED <<bot, now, prompts, USER_CHAT_IDS>>
    /\ LET user_response == StripLower(r)
       IN  IF user_response \notin {"yes", "no"}
           THEN /\ reply' = "please_reply_yes_or_no"
                /\ UNCHANGED <<state, user_data, calendar, ledger, jobs>>
           ELSE IF user_data = << >>
           THEN /\ reply' = "no_pending"
                /\ state' = END
                /\ UNCHANGED <<user_data, calendar, ledger, jobs>>
           ELSE IF user_response = "yes"
           THEN /\ Room
                /\ create_event(user_data[1].description, user_data[1].datetime,
                                user_data[1].duration, fault)
                /\ user_data' = << >>
                /\ state' = END
           ELSE /\ reply' = "cancelled"
                /\ user_data' = << >>
                /\ state' = END
                /\ UNCHANGED <<calendar, ledger, jobs>>

\* fallbacks=[CommandHandler('cancel', lambda u, c: ConversationHandler.END)]
cancel ==
    /\ bot \in {"event_manager", "bot", "task_manager", "aislavery"}
    /\ Idle
    /\ state = CONFIRMATION
    /\ state' = END
    /\ UNCHANGED <<bot, now, user_data, calendar, ledger, jobs, prompts, reply,
                   USER_CHAT_IDS>>

\* a variant for the properties: the expiry set for the minute of the check
auto_update_time_at_once(t) == t

\* auto_update_time = datetime.now(...) + timedelta(hours=1)
auto_update_time(t) == t + AUTO_UPDATE_GRACE

\* a job whose run time has come
Due(j) == j \in jobs /\ j.run_time = now
\* a job registered with a run time already past
Late(j) == j \in jobs /\ j.run_time < now
\* misfire_grace_time: the scheduler drops, unrun, a job it comes to more than
\* the grace time after its run time.  That is every late job, and it can be a
\* due one: the job was registered in the minute of its run time, or the
\* loop was held up by a handler's Google call.
Misfired(j) == Late(j) \/ Due(j)

misfire(j) ==
    /\ Misfired(j)
    /\ jobs' = after_run(jobs, j)
    /\ UNCHANGED <<bot, now, state, user_data, calendar, ledger, prompts, reply,
                   USER_CHAT_IDS>>

send_event_check(j, sent) ==
    /\ Due(j)
    /\ j.fn = "send_event_check"
    /\ IF sent
       THEN /\ prompts' = prompts (+) SetToBag({Prompt("event", j.ev, << >>, 0, j.row)})
            /\ jobs' = add_job(jobs \ {j},
                               Job("auto_update_event_status", j.ev, << >>, 0,
                                   auto_update_time(now), 0, j.row))
       ELSE /\ jobs' = jobs \ {j}
            /\ UNCHANGED prompts
    /\ UNCHANGED <<bot, now, state, user_data, calendar, ledger, reply, USER_CHAT_IDS>>

\* a variant for the properties: the id's first row, whatever its status
auto_update_row_any_status(rows, event_id) ==
    FirstRow(rows, LAMBDA r : r.sheet = "Events" /\ r.ev = event_id)

\* the row auto_update_event_status writes: the id's first row that is still Pending
auto_update_row(rows, event_id) ==
    FirstRow(rows, LAMBDA r : r.sheet = "Events" /\ r.ev = event_id
                              /\ r.status = "Pending")

auto_update_event_status(j, fault) ==
    /\ Due(j)
    /\ j.fn = "auto_update_event_status"
    /\ jobs' = jobs \ {j}
    /\ LET row_number == auto_update_row(ledger, j.ev)
       IN  ledger' = IF fault = "none" /\ row_number # {}
                     THEN SetStatus(ledger, CHOOSE i \in row_number : TRUE, "Missed")
                     ELSE ledger
    /\ UNCHANGED <<bot, now, state, user_data, calendar, prompts, reply, USER_CHAT_IDS>>

\* the row handle_event_response writes: the id's first row
\* a variant for the properties: the first row of the tab, whatever its id
event_response_row_any(rows, event_id) ==
    FirstRow(rows, LAMBDA r : r.sheet = "Events")

event_response_row(rows, event_id) ==
    FirstRow(rows, LAMBDA r : r.sheet = "Events" /\ r.ev = event_id)

\* a variant for the properties: remove_job outside its try, so that the
\* JobLookupError of a missing job reaches the handler's outer except
handle_event_response_cancel_raises(p, status, fault) ==
    /\ HasEvents
    /\ Idle
    /\ BagIn(p, prompts)
    /\ p.kind = "event"
    /\ prompts' = prompts (-) SetToBag({p})
    /\ LET row_number == event_response_row(ledger, p.ev)
           new_status == IF status = "event_done" THEN "Done" ELSE "Missed"
           job_id == << "auto_update_", p.ev, << >>, 0 >>
       IN  IF fault # "none"
           THEN /\ reply' = "error"
                /\ UNCHANGED <<ledger, jobs>>
           ELSE IF row_number = {}
           THEN /\ reply' = "not_found"
                /\ UNCHANGED <<ledger, jobs>>
           ELSE /\ ledger' = SetStatus(ledger, CHOOSE i \in row_number : TRUE,
                                       new_status)
                /\ jobs' = remove_job(jobs, job_id)
                /\ reply' = IF get_job(jobs, job_id) = {} THEN "error" ELSE "marked"
    /\ UNCHANGED <<bot, now, state, user_data, calendar, USER_CHAT_IDS>>

handle_event_response(p, status, fault) ==
    /\ HasEvents
    /\ Idle
    /\ BagIn(p, prompts)
    /\ p.kind = "event"
    /\ prompts' = prompts (-) SetToBag({p})
    /\ LET row_number == event_response_row(ledger, p.ev)
           new_status == IF status = "event_done" THEN "Done" ELSE "Missed"
       IN  IF fault # "none"
           THEN /\ reply' = "error"
                /\ UNCHANGED <<ledger, jobs>>
           ELSE IF row_number = {}
           THEN /\ reply' = "not_found"
                /\ UNCHANGED <<ledger, jobs>>
           ELSE /\ ledger' = SetStatus(ledger, CHOOSE i \in row_number : TRUE,
                                       new_status)
                /\ jobs' = remove_job(jobs, << "auto_update_", p.ev, << >>, 0 >>)
                /\ reply' = "marked"
    /\ UNCHANGED <<bot, now, state, user_data, calendar, USER_CHAT_IDS>>

(***************************************************************************)
(* Tasks: task_manager_bot.py.                                             *)
(***************************************************************************)
YES_RESPONSES == {"yes", "yea", "yep", "yeah", "sure", "affirmative"}
NO_RESPONSES == {"no", "nah", "nope", "negative"}

\* /settask <description> | <due date>: well_formed says whether the date
\* field has the shape YYYY-MM-DD HH:MM, datetime what dateparser makes of it
TaskStructured(d, well_formed, dt) ==
    [shape |-> "structured", description |-> d, well_formed |-> well_formed,
     datetime |-> dt, text |-> << >>]
TaskFree(text) ==
    [shape |-> "text", description |-> << >>, well_formed |-> FALSE,
     datetime |-> << >>, text |-> text]

TaskCommands ==
    { TaskStructured(call_mom, FALSE, << 90 >>),
      TaskStructured(call_mom, TRUE, << >>),
      TaskStructured(call_mom, TRUE, << 90 >>),
      TaskStructured(call_mom, TRUE, << -30 >>),
      TaskFree(<< >>),
      TaskFree(call_mom \o << at_1_30 >>),
      TaskFree(gym \o << at_1_30 >>),
      TaskFree(call_mom),
      TaskFree(<< at_1_30 >>) }

\* a variant that fills a draft in place: the due date of a draft that is still
\* stored survives the new request
TaskDraft_merging(d, due) ==
    [description |-> d,
     due_date |-> IF user_data # << >> THEN user_data[1].due_date ELSE due]

TaskDraft(d, due) == [description |-> d, due_date |-> due]

\* reminder_time = due_date - timedelta(minutes=30)
task_reminder_time(due_date) == due_date - TASK_REMINDER_LEAD

\* the job table after the try block of create_task
create_task_jobs(fault, job) ==
    IF fault = "none" /\ ~Conflicts(jobs, job) THEN add_job(jobs, job) ELSE jobs

\* a variant for the properties: create_task without its except branch, so
\* that a failed add_job ends the handler with no message to the user
create_task_uncaught(task_description, due_date, fault) ==
    LET row == Row("Tasks", task_description, "Pending", due_date, 0)
        job == Job("send_task_reminder", 0, task_description, due_date,
                   task_reminder_time(due_date), due_date, Len(ledger) + 1)
    IN  /\ ledger' = IF fault = "none" THEN Append(ledger, row) ELSE ledger
        /\ jobs' = create_task_jobs(fault, job)
        /\ reply' = IF fault = "none" /\ ~Conflicts(jobs, job) THEN "created"
                    ELSE reply

create_task(task_description, due_date, fault) ==
    LET row == Row("Tasks", task_description, "Pending", due_date, 0)
        job == Job("send_task_reminder", 0, task_description, due_date,
                   task_reminder_time(due_date), due_date, Len(ledger) + 1)
    IN  /\ ledger' = IF fault = "none" THEN Append(ledger, row) ELSE ledger
        /\ jobs' = create_task_jobs(fault, job)
        /\ reply' = IF fault = "none" /\ ~Conflicts(jobs, job) THEN "created"
                    ELSE "creation_failed"

task_manager_set_task(cmd) ==
    /\ bot = "task_manager"
    /\ Idle
    /\ state = END
    /\ UNCHANGED <<bot, now, calendar, ledger, jobs, prompts, USER_CHAT_IDS>>
    /\ IF cmd.shape = "text" /\ cmd.text = << >>
       THEN /\ reply' = "usage"
            /\ UNCHANGED <<state, user_data>>
       ELSE IF cmd.shape = "structured"
       THEN IF ~cmd.well_formed
            THEN /\ reply' = "bad_format"
                 /\ UNCHANGED <<state, user_data>>
            ELSE IF cmd.datetime = << >>
            THEN /\ reply' = "could_not_parse_date"
                 /\ UNCHANGED <<state, user_data>>
            ELSE /\ user_data' = << TaskDraft(cmd.description, cmd.datetime[1]) >>
                 /\ reply' = "please_confirm"
                 /\ state' = CONFIRMATION
       ELSE LET parsed == parse_task_language(cmd.text, now)
            IN  IF parsed.description = << >>
                THEN /\ reply' = "could_not_understand"
                     /\ UNCHANGED <<state, user_data>>
                ELSE IF parsed.ambiguous
                THEN /\ reply' = "ambiguous"
                     /\ UNCHANGED <<state, user_data>>
                ELSE /\ user_data' = << TaskDraft(parsed.description,
                                                  parsed.due_date) >>
                     /\ reply' = "please_confirm"
                     /\ state' = CONFIRMATION

task_manager_handle_confirmation(r, fault) ==
    /\ bot = "task_manager"
    /\ Idle
    /\ state = CONFIRMATION
    /\ UNCHANGED <<bot, now, user_data, calendar, prompts, USER_CHAT_IDS>>
    /\ LET user_response == StripLower(r)
       IN  IF user_response \in YES_RESPONSES
           THEN IF user_data = << >>
                THEN /\ reply' = "error"
                     /\ state' = END
                     /\ UNCHANGED <<ledger, jobs>>
                ELSE /\ Room
                     /\ create_task(user_data[1].description,
                                    user_data[1].due_date, fault)
                     /\ state' = END
           ELSE IF user_response \in NO_RESPONSES
           THEN /\ reply' = "cancelled"
                /\ state' = END
                /\ UNCHANGED <<ledger, jobs>>
           ELSE /\ reply' = "please_reply_yes_or_no"
                /\ UNCHANGED <<state, ledger, jobs>>

send_task_reminder(j, sent) ==
    /\ bot = "task_manager"
    /\ Due(j)
    /\ j.fn = "send_task_reminder"
    /\ jobs' = jobs \ {j}
    /\ prompts' = IF sent
                  THEN prompts (+) SetToBag({Prompt("task", 0, j.description,
                                                    j.due, j.row)})
                  ELSE prompts
    /\ UNCHANGED <<bot, now, state, user_data, calendar, ledger, reply, USER_CHAT_IDS>>

\* the row handle_task_response writes: the first with the description and due date
task_response_row(rows, task_description, due_date) ==
    FirstRow(rows, LAMBDA r : r.sheet = "Tasks" /\ r.description = task_description
                              /\ r.when = due_date)

handle_task_response(p, status, fault) ==
    /\ bot = "task_manager"
    /\ Idle
    /\ BagIn(p, prompts)
    /\ p.kind = "task"
    /\ prompts' = prompts (-) SetToBag({p})
    /\ LET row_number == task_response_row(ledger, p.description, p.due)
           new_status == IF status = "task_done" THEN "Done" ELSE "Pending"
       IN  IF fault # "none"
           THEN /\ reply' = "error"
                /\ UNCHANGED ledger
           ELSE IF row_number = {}
           THEN /\ reply' = "not_found"
                /\ UNCHANGED ledger
           ELSE /\ ledger' = SetStatus(ledger, CHOOSE i \in row_number : TRUE,
                                       new_status)
                /\ reply' = "marked"
    /\ UNCHANGED <<bot, now, state, user_data, calendar, jobs, USER_CHAT_IDS>>

(***************************************************************************)
(* Tasks: bot.py.  Its set_task has no confirmation step, and no handler   *)
(* registration in register_handlers names it; it is modelled as the       *)
(* command it is written to be (the reminders and the callback handler it  *)
(* feeds are registered).                                                  *)
(***************************************************************************)
\* /settask <description> | <due date>, or a text without the bar
BotTaskCommands ==
    { TaskStructured(call_mom, TRUE, << >>),
      TaskStructured(call_mom, TRUE, << 0 >>),
      TaskStructured(call_mom, TRUE, << 30 >>),
      TaskStructured(call_mom, TRUE, << 60 >>),
      TaskStructured(call_mom, TRUE, << 90 >>),
      TaskFree(call_mom) }

\* if reminder_time > now: scheduler.add_job(...)
bot_set_task_jobs(fault, job) ==
    IF fault = "none" /\ job.run_time > now /\ ~Conflicts(jobs, job)
    THEN add_job(jobs, job) ELSE jobs

bot_set_task(cmd, fault) ==
    /\ bot = "bot"
    /\ Idle
    /\ UNCHANGED <<bot, now, state, user_data, calendar, prompts, USER_CHAT_IDS>>
    /\ IF cmd.shape # "structured"
       THEN /\ reply' = "usage"
            /\ UNCHANGED <<ledger, jobs>>
       ELSE IF cmd.datetime = << >>
       THEN /\ reply' = "could_not_parse_date"
            /\ UNCHANGED <<ledger, jobs>>
       ELSE IF cmd.datetime[1] <= now
       THEN /\ reply' = "must_be_in_the_future"
            /\ UNCHANGED <<ledger, jobs>>
       ELSE LET due_date == cmd.datetime[1]
                row == Row("Tasks", cmd.description, "Pending", due_date, 0)
                job == Job("send_task_reminder", 0, cmd.description, due_date,
                           task_reminder_time(due_date), due_date, Len(ledger) + 1)
            IN  /\ Room
                /\ ledger' = IF fault = "none" THEN Append(ledger, row) ELSE ledger
                /\ jobs' = bot_set_task_jobs(fault, job)
                /\ reply' = IF fault = "none"
                               /\ (job.run_time > now => ~Conflicts(jobs, job))
                            THEN "created" ELSE "creation_failed"

\* callback_data f"task_done|{task_description}": the buttons carry no due date
bot_send_task_reminder(j, sent) ==
    /\ bot = "bot"
    /\ Due(j)
    /\ j.fn = "send_task_reminder"
    /\ jobs' = jobs \ {j}
    /\ prompts' = IF sent
                  THEN prompts (+) SetToBag({Prompt("task", 0, j.description, 0, j.row)})
                  ELSE prompts
    /\ UNCHANGED <<bot, now, state, user_data, calendar, ledger, reply, USER_CHAT_IDS>>

\* the row bot.py's handle_task_response writes: the description's first Pending row
bot_task_response_row(rows, task_description) ==
    FirstRow(rows, LAMBDA r : r.sheet = "Tasks" /\ r.description = task_description
                              /\ r.status = "Pending")

\* snooze_time = datetime.now(...) + timedelta(minutes=15)
SNOOZE == 15
snooze_job(p) ==
    Job("send_task_reminder", 0, p.description, now + SNOOZE, now + SNOOZE,
        now + SNOOZE + TASK_REMINDER_LEAD, p.row)

bot_handle_task_response(p, action, fault) ==
    /\ bot = "bot"
    /\ Idle
    /\ BagIn(p, prompts)
    /\ p.kind = "task"
    /\ prompts' = prompts (-) SetToBag({p})
    /\ IF action = "task_done"
       THEN LET row_number == bot_task_response_row(ledger, p.description)
            IN  /\ UNCHANGED jobs
                /\ IF fault # "none"
                   THEN /\ reply' = "error"
                        /\ UNCHANGED ledger
                   ELSE IF row_number = {}
                   THEN /\ reply' = "not_found"
                        /\ UNCHANGED ledger
                   ELSE /\ ledger' = SetStatus(ledger, CHOOSE i \in row_number : TRUE,
                                               "Done")
                        /\ reply' = "marked"
       ELSE /\ UNCHANGED ledger
            /\ IF Conflicts(jobs, snooze_job(p))
               THEN /\ reply' = "error"
                    /\ UNCHANGED jobs
               ELSE /\ jobs' = add_job(jobs, snooze_job(p))
                    /\ reply' = "snoozed"
    /\ UNCHANGED <<bot, now, state, user_data, calendar, USER_CHAT_IDS>>

(***************************************************************************)
(* Tasks: aislavery.py.  No scheduler: a task is a row of the sheet.       *)
(***************************************************************************)
tomorrow == Date("tomorrow", MINUTES_PER_DAY + 30)

AislaveryTexts ==
    { << >>,
      call_mom \o << at_1 >>,
      call_mom,
      << at_1 >>,
      call_mom \o << tomorrow, at_1 >> }

aislavery_set_task(text) ==
    /\ bot = "aislavery"
    /\ state = END
    /\ UNCHANGED <<bot, now, calendar, ledger, jobs, prompts, USER_CHAT_IDS>>
    /\ IF text = << >>
       THEN /\ reply' = "usage"
            /\ UNCHANGED <<state, user_data>>
       ELSE LET parsed == parse_task_input(text, now)
            IN  IF parsed.ambiguous \/ parsed.description = << >>
                   \/ parsed.due_date = << >>
                THEN /\ reply' = "could_not_understand"
                     /\ UNCHANGED <<state, user_data>>
                ELSE /\ user_data' = << [description   |-> parsed.description,
                                         start_date    |-> parsed.start_date,
                                         due_date      |-> parsed.due_date,
                                         duration_days |-> parsed.duration_days] >>
                     /\ reply' = "please_confirm"
                     /\ state' = CONFIRMATION

\* due_date.strftime('%Y-%m-%d'): the sheet keeps the day
aislavery_create_task(task_info, fault) ==
    LET row == Row("Tasks", task_info.description, "Pending",
                   DayOf(task_info.due_date[1]) * MINUTES_PER_DAY, 0)
    IN  /\ ledger' = IF fault = "none" THEN Append(ledger, row) ELSE ledger
        /\ reply' = IF fault = "none" THEN "created" ELSE "creation_failed"

\* a variant that gives up on a reply it does not know, instead of asking again
handle_task_confirmation_giving_up(r, fault) ==
    /\ bot = "aislavery"
    /\ state = CONFIRMATION
    /\ UNCHANGED <<bot, now, calendar, jobs, prompts, USER_CHAT_IDS>>
    /\ LET user_response == StripLower(r)
       IN  IF user_response \notin {"yes", "no"}
           THEN /\ reply' = "please_reply_yes_or_no"
                /\ state' = END
                /\ UNCHANGED <<user_data, ledger>>
           ELSE IF user_response = "no"
           THEN /\ reply' = "cancelled"
                /\ user_data' = << >>
                /\ state' = END
                /\ UNCHANGED ledger
           ELSE IF user_data = << >>
           THEN /\ reply' = "no_pending"
                /\ state' = END
                /\ UNCHANGED <<user_data, ledger>>
           ELSE /\ Room
                /\ aislavery_create_task(user_data[1], fault)
                /\ user_data' = << >>
                /\ state' = END

handle_task_confirmation(r, fault) ==
    /\ bot = "aislavery"
    /\ state = CONFIRMATION
    /\ UNCHANGED <<bot, now, calendar, jobs, prompts, USER_CHAT_IDS>>
    /\ LET user_response == StripLower(r)
       IN  IF user_response \notin {"yes", "no"}
           THEN /\ reply' = "please_reply_yes_or_no"
                /\ UNCHANGED <<state, user_data, ledger>>
           ELSE IF user_response = "no"
           THEN /\ reply' = "cancelled"
                /\ user_data' = << >>
                /\ state' = END
                /\ UNCHANGED ledger
           ELSE IF user_data = << >>
           THEN /\ reply' = "no_pending"
                /\ state' = END
                /\ UNCHANGED <<user_data, ledger>>
           ELSE /\ Room
                /\ aislavery_create_task(user_data[1], fault)
                /\ user_data' = << >>
                /\ state' = END

(***************************************************************************)
(* Habits.  The run is taken to start half an hour before the morning      *)
(* routine: a habit's time is in minutes after the start of the run.       *)
(***************************************************************************)
morning_routine == << Word("morning"), Word("routine") >>
test_habit == << Word("test"), Word("habit") >>
MORNING_ROUTINE_TIME == 30
MORNING_ROUTINE_DURATION == 30
\* datetime.now(local_tz) + timedelta(minutes=5);  args=["Test Habit", 10]
TEST_HABIT_DELAY == 5
TEST_HABIT_DURATION == 10

HABITS ==
    { [description |-> morning_routine, time |-> MORNING_ROUTINE_TIME,
       duration |-> MORNING_ROUTINE_DURATION] }

\* /start: the chat the habit checks go to
Chat == 1
start ==
    /\ bot \in {"bot", "habit_tracker"}
    /\ Idle
    /\ USER_CHAT_IDS' = USER_CHAT_IDS \cup {Chat}
    /\ reply' = "welcome"
    /\ UNCHANGED <<bot, now, state, user_data, calendar, ledger, jobs, prompts>>

\* a creation job: due carries the duration argument
HabitJob(d, key, run_time, duration) ==
    Job("create_habit_event", 0, d, key, run_time, duration, 0)

\* the job table after the try block of a create_habit_event
create_habit_jobs(js, fault, job) ==
    IF fault = "none" /\ ~Conflicts(js, job) THEN add_job(js, job) ELSE js

(***************************************************************************)
(* Habits: bot.py.  schedule_habits registers one cron job per habit and   *)
(* frequency; a cron job stays in the table and runs again the next day.   *)
(***************************************************************************)
schedule_habits ==
    {HabitJob(h.description, DAILY, h.time, h.duration) : h \in HABITS}

\* reminder_time = now + timedelta(minutes=duration)
bot_habit_reminder_time(t, duration) == t + duration

bot_create_habit_event(j, fault) ==
    /\ bot = "bot"
    /\ Due(j)
    /\ j.fn = "create_habit_event"
    /\ LET event_id == NewEventId
           row == Row("Habits", j.description, "Pending", now, event_id)
           job == Job("send_habit_check", event_id, << >>, 0,
                      bot_habit_reminder_time(now, j.due), 0, Len(ledger) + 1)
       IN  /\ calendar' = IF fault = "calendar" THEN calendar
                          ELSE calendar \cup {event_id}
           /\ ledger' = IF fault = "none" THEN Append(ledger, row) ELSE ledger
           /\ jobs' = create_habit_jobs(after_run(jobs, j), fault, job)
    /\ UNCHANGED <<bot, now, state, user_data, prompts, reply, USER_CHAT_IDS>>

\* if not USER_CHAT_ID: return
bot_send_habit_check(j, sent) ==
    /\ bot = "bot"
    /\ Due(j)
    /\ j.fn = "send_habit_check"
    /\ jobs' = jobs \ {j}
    /\ prompts' = IF USER_CHAT_IDS # {} /\ sent
                  THEN prompts (+) SetToBag({Prompt("habit", j.ev, << >>, 0, j.row)})
                  ELSE prompts
    /\ UNCHANGED <<bot, now, state, user_data, calendar, ledger, reply, USER_CHAT_IDS>>

\* the row bot.py's handle_habit_response writes: the id's first row
bot_habit_response_row(rows, event_id) ==
    FirstRow(rows, LAMBDA r : r.sheet = "Habits" /\ r.ev = event_id)

bot_handle_habit_response(p, status, fault) ==
    /\ bot = "bot"
    /\ Idle
    /\ BagIn(p, prompts)
    /\ p.kind = "habit"
    /\ prompts' = prompts (-) SetToBag({p})
    /\ LET row_number == bot_habit_response_row(ledger, p.ev)
           new_status == IF status = "habit_done" THEN "Done" ELSE "Missed"
       IN  IF fault # "none"
           THEN /\ reply' = "error"
                /\ UNCHANGED ledger
           ELSE IF row_number = {}
           THEN /\ reply' = "not_found"
                /\ UNCHANGED ledger
           ELSE /\ ledger' = SetStatus(ledger, CHOOSE i \in row_number : TRUE,
                                       new_status)
                /\ reply' = "marked"
    /\ UNCHANGED <<bot, now, state, user_data, calendar, jobs, USER_CHAT_IDS>>

(***************************************************************************)
(* Habits: habit_tracker_bot.py.                                           *)
(***************************************************************************)
\* already_scheduled: a row of the habit with that date
already_scheduled(rows, d, day) ==
    \E i \in 1..Len(rows) : /\ rows[i].sheet = "Habits"
                            /\ rows[i].description = d
                            /\ DayOf(rows[i].when) = day

\* for day_offset in range(1, 3)
DayOffsets == {1, 2}

\* the scheduler is empty when this runs, so get_job(job_id) finds nothing
schedule_habits_two_days_ahead(rows, t) ==
    { HabitJob(q[1].description, DayOf(t) + q[2],
               (DayOf(t) + q[2]) * MINUTES_PER_DAY + q[1].time, q[1].duration) :
        q \in {p \in HABITS \X DayOffsets :
                 ~already_scheduled(rows, p[1].description, DayOf(t) + p[2])} }
    \cup {HabitJob(test_habit, TEST_DATE, t + TEST_HABIT_DELAY, TEST_HABIT_DURATION)}

\* reminder_time = now + timedelta(minutes=duration + 30)
habit_reminder_time(t, duration) == t + duration + HABIT_CHECK_EXTRA

create_habit_event(j, fault) ==
    /\ bot = "habit_tracker"
    /\ Due(j)
    /\ j.fn = "create_habit_event"
    /\ LET event_id == NewEventId
           row == Row("Habits", j.description, "Pending", now, event_id)
           job == Job("send_habit_check", event_id, << >>, 0,
                      habit_reminder_time(now, j.due), 0, Len(ledger) + 1)
       IN  /\ calendar' = IF fault = "calendar" THEN calendar
                          ELSE calendar \cup {event_id}
           /\ ledger' = IF fault = "none" THEN Append(ledger, row) ELSE ledger
           /\ jobs' = create_habit_jobs(after_run(jobs, j), fault, job)
    /\ UNCHANGED <<bot, now, state, user_data, prompts, reply, USER_CHAT_IDS>>

\* if not USER_CHAT_IDS: return
send_habit_check(j, sent) ==
    /\ bot = "habit_tracker"
    /\ Due(j)
    /\ j.fn = "send_habit_check"
    /\ jobs' = jobs \ {j}
    /\ prompts' = IF USER_CHAT_IDS # {} /\ sent
                  THEN prompts (+) SetToBag({Prompt("habit", j.ev, << >>, 0, j.row)})
                  ELSE prompts
    /\ UNCHANGED <<bot, now, state, user_data, calendar, ledger, reply, USER_CHAT_IDS>>

\* get_habit_row: the first row with the description and the date
get_habit_row(rows, habit_description, day) ==
    FirstRow(rows, LAMBDA r : r.sheet = "Habits" /\ r.description = habit_description
                              /\ DayOf(r.when) = day)

\* the row handle_habit_response writes: get_habit_row of the description and
\* date of the id's first record
habit_response_row(rows, event_id) ==
    LET record == FirstRow(rows, LAMBDA r : r.sheet = "Habits" /\ r.ev = event_id)
    IN  IF record = {} THEN {}
        ELSE LET r == rows[CHOOSE i \in record : TRUE]
             IN  get_habit_row(rows, r.description, DayOf(r.when))

handle_habit_response(p, status, fault) ==
    /\ bot = "habit_tracker"
    /\ Idle
    /\ BagIn(p, prompts)
    /\ p.kind = "habit"
    /\ prompts' = prompts (-) SetToBag({p})
    /\ LET row_number == habit_response_row(ledger, p.ev)
           new_status == IF status = "habit_done" THEN "Done" ELSE "Missed"
       IN  IF fault # "none"
           THEN /\ reply' = "error"
                /\ UNCHANGED <<ledger, jobs>>
           ELSE IF row_number = {}
           THEN /\ reply' = "not_found"
                /\ UNCHANGED <<ledger, jobs>>
           ELSE /\ ledger' = SetStatus(ledger, CHOOSE i \in row_number : TRUE,
                                       new_status)
                /\ jobs' = remove_job(jobs, << "habit_check_", p.ev, << >>, 0 >>)
                /\ reply' = "marked"
    /\ UNCHANGED <<bot, now, state, user_data, calendar, USER_CHAT_IDS>>

\* /habitcheck: a prompt for each of today's Pending habits
todays_habits(rows, t) ==
    {i \in 1..Len(rows) : /\ rows[i].sheet = "Habits"
                          /\ DayOf(rows[i].when) = DayOf(t)
                          /\ rows[i].status = "Pending"}

habit_check(fault, sent) ==
    /\ bot = "habit_tracker"
    /\ Idle
    /\ LET todo == todays_habits(ledger, now)
           asked == {Prompt("habit", ledger[i].ev, << >>, 0, i) : i \in todo}
       IN  IF fault # "none"
           THEN /\ reply' = "error"
                /\ UNCHANGED prompts
           ELSE IF \A i \in 1..Len(ledger) : ledger[i].sheet # "Habits"
           THEN /\ reply' = "no_habits"
                /\ UNCHANGED prompts
           ELSE IF todo = {}
           THEN /\ reply' = "all_checked"
                /\ UNCHANGED prompts
           ELSE /\ PromptCount + Cardinality(asked) <= MaxPrompts
                /\ prompts' = IF USER_CHAT_IDS # {} /\ sent
                              THEN prompts (+) SetToBag(asked) ELSE prompts
                /\ reply' = ""
    /\ UNCHANGED <<bot, now, state, user_data, calendar, ledger, jobs, USER_CHAT_IDS>>

(***************************************************************************)
(* The state after start-up.                                               *)
(***************************************************************************)
\* the jobs the program registers as it starts
StartupJobs(b) ==
    IF b = "bot" THEN schedule_habits
    ELSE IF b = "habit_tracker" THEN schedule_habits_two_days_ahead(<< >>, 0)
    ELSE {}

Init ==
    /\ bot \in Bots
    /\ now = 0
    /\ state = END
    /\ user_data = << >>
    /\ calendar = {}
    /\ ledger = << >>
    /\ jobs = StartupJobs(bot)
    /\ prompts = EmptyBag
    /\ reply = ""
    /\ USER_CHAT_IDS = {}

(***************************************************************************)
(* The clock.  A job runs when its run time comes, so time passes only     *)
(* when no job is waiting to run.                                          *)
(***************************************************************************)
\* the next instant: a step of the clock, or sooner when a job is due sooner
NextInstant ==
    LET times == {now + Step} \cup {j.run_time : j \in jobs}
    IN  CHOOSE t \in times : \A u \in times : t <= u

Tick ==
    /\ NextInstant <= MaxTime
    /\ Idle
    /\ now' = NextInstant
    /\ UNCHANGED <<bot, state, user_data, calendar, ledger, jobs, prompts, reply,
                   USER_CHAT_IDS>>

(***************************************************************************)
(* The updates the user can send.                                          *)
(***************************************************************************)
Update ==
    \/ \E cmd \in EventCommands : set_event(cmd)
    \/ \E r \in Replies, fault \in Faults : handle_confirmation(r, fault)
    \/ cancel
    \/ \E p \in BagToSet(prompts), status \in {"event_done", "event_missed"},
          fault \in {"none", "sheets"} : handle_event_response(p, status, fault)
    \/ \E cmd \in TaskCommands : task_manager_set_task(cmd)
    \/ \E r \in Replies, fault \in {"none", "sheets"} :
          task_manager_handle_confirmation(r, fault)
    \/ \E p \in BagToSet(prompts), status \in {"task_done", "task_not_done"},
          fault \in {"none", "sheets"} : handle_task_response(p, status, fault)
    \/ \E cmd \in BotTaskCommands, fault \in {"none", "sheets"} :
          bot_set_task(cmd, fault)
    \/ \E p \in BagToSet(prompts), action \in {"task_done", "task_snooze"},
          fault \in {"none", "sheets"} : bot_handle_task_response(p, action, fault)
    \/ \E text \in AislaveryTexts : aislavery_set_task(text)
    \/ \E r \in Replies, fault \in {"none", "sheets"} :
          handle_task_confirmation(r, fault)
    \/ start
    \/ \E p \in BagToSet(prompts), status \in {"habit_done", "habit_missed"},
          fault \in {"none", "sheets"} : handle_habit_response(p, status, fault)
    \/ \E fault \in {"none", "sheets"}, sent \in BOOLEAN : habit_check(fault, sent)
    \/ \E p \in BagToSet(prompts), status \in {"habit_done", "habit_missed"},
          fault \in {"none", "sheets"} : bot_handle_habit_response(p, status, fault)

(***************************************************************************)
(* The scheduler runs job j; fault and sent say whether the Google and     *)
(* Telegram calls of the callback go through.                              *)
(***************************************************************************)
Callback(j, fault, sent) ==
    \/ send_event_check(j, sent)
    \/ auto_update_event_status(j, fault)
    \/ send_task_reminder(j, sent)
    \/ bot_send_task_reminder(j, sent)
    \/ create_habit_event(j, fault)
    \/ send_habit_check(j, sent)
    \/ bot_create_habit_event(j, fault)
    \/ bot_send_habit_check(j, sent)

Fire ==
    \E j \in jobs :
        \/ misfire(j)
        \/ \E fault \in Faults, sent \in BOOLEAN : Callback(j, fault, sent)

Next == Tick \/ Update \/ Fire

Spec == Init /\ [][Next]_vars

(***************************************************************************)
(* Fair firing: time passes, a job whose time has come is run, and the     *)
(* calls its callback makes go through.                                    *)
(***************************************************************************)
FairFire ==
    \E j \in jobs : (Late(j) /\ misfire(j)) \/ Callback(j, "none", TRUE)

FairNext == Tick \/ Update \/ FairFire

FairSpec == Init /\ [][FairNext]_vars /\ WF_vars(Tick) /\ WF_vars(FairFire)

(***************************************************************************)
(* Properties.                                                             *)
(***************************************************************************)
\* the step appends a row, NewRow
Appended == Len(ledger') = Len(ledger) + 1
NewRow == ledger'[Len(ledger')]

\* the step is a confirmation handler's, taking the reply r
Confirms(r) ==
    \E fault \in Faults : \/ handle_confirmation(r, fault)
                          \/ task_manager_handle_confirmation(r, fault)
                          \/ handle_task_confirmation(r, fault)

\* the row a job or a prompt was made for has this status
StatusOf(i) == ledger[i].status

(* C1: a Pending record of a user's request (an Events or Tasks row) is    *)
(* appended only by a step that starts in CONFIRMATION with the request's  *)
(* draft stored and that handles an affirmative reply; no creating command *)
(* appends a row by itself.                                                *)
C1_NoSilentCreation ==
    [][Appended /\ NewRow.sheet \in {"Events", "Tasks"} =>
          /\ state = CONFIRMATION
          /\ user_data # << >>
          /\ user_data[1].description = NewRow.description
          /\ \E r \in Replies : StripLower(r) \in YES_RESPONSES /\ Confirms(r)]_vars

\* bot.py's /settask has appended a row while the dialogue never left END
C1_SilentTask ==
    /\ bot = "bot"
    /\ state = END
    /\ \E i \in 1..Len(ledger) : ledger[i].sheet = "Tasks" /\ StatusOf(i) = "Pending"

(* C2: when the user's answer and the auto-expiry of one event both        *)
(* happen, the first to move the status from Pending wins: the later of    *)
(* the two, finding the row no longer Pending, leaves the ledger as it is, *)
(* and a later answer is reported as already resolved.                     *)
C2_FirstResolutionWins ==
    [][/\ \A p \in BagToSet(prompts), status \in {"event_done", "event_missed"} :
            LET row_number == event_response_row(ledger, p.ev)
            IN  /\ handle_event_response(p, status, "none")
                /\ row_number # {}
                /\ StatusOf(CHOOSE i \in row_number : TRUE) # "Pending"
                => ledger' = ledger /\ reply' = "already_resolved"
       /\ \A j \in jobs :
            /\ auto_update_event_status(j, "none")
            /\ j.row <= Len(ledger)
            /\ StatusOf(j.row) # "Pending"
            => ledger' = ledger]_vars

\* the auto-expiry has marked an event Missed while its prompt is still on screen
C2_ExpiredWithPrompt ==
    \E p \in BagToSet(prompts) :
        /\ p.kind = "event"
        /\ p.row <= Len(ledger)
        /\ StatusOf(p.row) = "Missed"

(* C3: Done, Missed and Cancelled are terminal: no step changes the status *)
(* of a row that has one of them.                                          *)
C3_TerminalIsFinal ==
    [][\A i \in 1..Len(ledger) :
          StatusOf(i) \in Terminal => ledger'[i].status = StatusOf(i)]_vars

\* a terminal row whose prompt (or a prompt that resolves to it) is on screen
C3_TerminalWithPrompt ==
    \E p \in BagToSet(prompts) :
        /\ p.kind = "task"
        /\ bot = "task_manager"
        /\ task_response_row(ledger, p.description, p.due) # {}
        /\ StatusOf(CHOOSE i \in task_response_row(ledger, p.description, p.due) : TRUE)
             = "Done"

Asked(i) == \E p \in BagToSet(prompts) : p.row = i

\* row i is still Pending
Pending(i) == i <= Len(ledger) /\ StatusOf(i) = "Pending"

\* a job registered for row i has a run time the clock of the model never reaches
BeyondClock(i) == \E j \in jobs : j.row = i /\ j.run_time > MaxTime

(* C5: under fair firing of the scheduled jobs, an Event or Habit whose    *)
(* outcome check has come due (its prompt is on screen) does not stay      *)
(* Pending for ever when the user never answers: eventually its status     *)
(* leaves Pending, or else the prompt was answered.                        *)
C5_AutoExpiry ==
    \A i \in 1..MaxRows :
        [](/\ Pending(i)
           /\ ledger[i].sheet \in {"Events", "Habits"}
           /\ Asked(i)
           /\ ~BeyondClock(i)
           => <>(~Pending(i) \/ ~Asked(i)))

\* a habit is Pending, its check is on screen, and the scheduler holds nothing for it
C5_HabitLeftPending ==
    \E i \in 1..Len(ledger) :
        /\ ledger[i].sheet = "Habits"
        /\ Pending(i)
        /\ Asked(i)
        /\ \A j \in jobs : j.row # i

\* a remind job: the job that asks for the outcome of a commitment
IsRemind(j) == j.fn \in {"send_event_check", "send_task_reminder", "send_habit_check"}

\* the remind jobs the step registers as it creates a commitment (a snooze,
\* which also registers one, takes a prompt off the screen)
RemindRegistered ==
    {j \in jobs' \ jobs : IsRemind(j) /\ prompts' = prompts}

\* the duration argument of the habit creation job that is running
RunningHabitDuration ==
    (CHOOSE c \in jobs : c.fn = "create_habit_event" /\ c.run_time = now).due

TakenForYes(r) ==
    IF bot = "task_manager" THEN StripLower(r) \in YES_RESPONSES
    ELSE StripLower(r) = "yes"

(* C7: a remind job is registered at creation only in a step that has      *)
(* appended the commitment's row (and, for an event or a habit, inserted   *)
(* its calendar event); and when the calendar insert or the ledger append  *)
(* of a confirmed draft or of a /settask fails, the step registers no job, *)
(* appends nothing and tells the user that creation failed.                *)
C7_PersistBeforeSchedule ==
    [][/\ jobs' # jobs =>
            \A j \in RemindRegistered :
                /\ Appended
                /\ j.row = Len(ledger')
                /\ NewRow.status = "Pending"
                /\ NewRow.sheet \in {"Events", "Habits"} =>
                      NewRow.ev = j.ev /\ j.ev \in calendar' \ calendar
       /\ state = CONFIRMATION /\ user_data # << >> =>
            \A r \in Replies, fault \in {"calendar", "sheets"} :
                /\ TakenForYes(r)
                /\ \/ handle_confirmation(r, fault)
                   \/ task_manager_handle_confirmation(r, fault)
                   \/ handle_task_confirmation(r, fault)
                => jobs' = jobs /\ ledger' = ledger /\ reply' = "creation_failed"
       /\ bot = "bot" =>
            \A cmd \in BotTaskCommands :
                /\ cmd.shape = "structured"
                /\ cmd.datetime # << >>
                /\ cmd.datetime[1] > now
                /\ bot_set_task(cmd, "sheets")
                => jobs' = jobs /\ ledger' = ledger /\ reply' = "creation_failed"]_vars

\* the ledger append of a confirmed event has failed after its calendar insert
C7_AppendFailed ==
    /\ bot = "event_manager"
    /\ reply = "creation_failed"
    /\ calendar # {}
    /\ ledger = << >>
    /\ jobs = {}

(* C8: no task-creating step appends a row, or registers a reminder, for a *)
(* task whose due time is not after the current time.                      *)
C8_NoPastTask ==
    [][Appended /\ NewRow.sheet = "Tasks" =>
          /\ IF bot = "aislavery" THEN user_data[1].due_date[1] > now
             ELSE NewRow.when > now
          /\ \A j \in RemindRegistered : j.due > now]_vars

\* the task manager holds a Pending task that was already due when it was confirmed
C8_PastTask ==
    /\ bot = "task_manager"
    /\ \E i \in 1..Len(ledger) : ledger[i].sheet = "Tasks" /\ ledger[i].when < 0

\* the step stores a draft and asks for confirmation
AsksToConfirm == state' = CONFIRMATION /\ user_data' # << >>

(* C9: whenever the extractor returns ambiguous = TRUE with a non-empty    *)
(* description, the command stores the draft and goes to CONFIRMATION; it  *)
(* never rejects the request because of the flag.                          *)
C9_AmbiguityConfirms ==
    [][/\ \A cmd \in EventCommands :
            LET parsed == parse_natural_language(cmd.text, now, bot)
            IN  /\ cmd.shape = "text" /\ cmd.text # << >>
                /\ set_event(cmd)
                /\ parsed.ambiguous /\ parsed.description # << >>
                => AsksToConfirm
       /\ \A cmd \in TaskCommands :
            LET parsed == parse_task_language(cmd.text, now)
            IN  /\ cmd.shape = "text" /\ cmd.text # << >>
                /\ task_manager_set_task(cmd)
                /\ parsed.ambiguous /\ parsed.description # << >>
                => AsksToConfirm
       /\ \A text \in AislaveryTexts :
            LET parsed == parse_task_input(text, now)
            IN  /\ text # << >>
                /\ aislavery_set_task(text)
                /\ parsed.ambiguous /\ parsed.description # << >>
                => AsksToConfirm]_vars

\* the task manager has turned a request down as ambiguous
C9_RejectedAsAmbiguous ==
    bot = "task_manager" /\ reply = "ambiguous" /\ state = END

(* C10: a negative reply in CONFIRMATION ends the dialogue as cancelled,   *)
(* leaves no draft stored, and writes nothing to the ledger, the calendar  *)
(* or the scheduler.                                                       *)
C10_NegativeDiscards ==
    [][\A r \in Replies :
          StripLower(r) = "no" /\ Confirms(r) =>
              /\ state' = END
              /\ reply' = "cancelled"
              /\ user_data' = << >>
              /\ UNCHANGED <<ledger, calendar, jobs>>]_vars

\* the task manager has cancelled a dialogue and still holds the draft
C10_DraftKept ==
    bot = "task_manager" /\ reply = "cancelled" /\ state = END /\ user_data # << >>

\* the reply r is one the bot takes for a no
TakenForNo(r) ==
    IF bot = "task_manager" THEN StripLower(r) \in NO_RESPONSES
    ELSE StripLower(r) = "no"

(* C11: a reply in CONFIRMATION that the bot takes neither for a yes nor   *)
(* for a no is answered with the question again and changes nothing: the   *)
(* dialogue stays in CONFIRMATION (so the same can happen again), and the  *)
(* draft, the ledger, the calendar and the scheduler are as they were.     *)
C11_OtherReplyAsksAgain ==
    [][state = CONFIRMATION =>
          \A r \in Replies :
              ~TakenForYes(r) /\ ~TakenForNo(r) /\ Confirms(r) =>
                  /\ state' = CONFIRMATION
                  /\ reply' = "please_reply_yes_or_no"
                  /\ UNCHANGED <<user_data, ledger, calendar, jobs>>]_vars

\* aislavery.py has asked again and still holds the draft
C11_AskedAgain ==
    /\ bot = "aislavery"
    /\ state = CONFIRMATION
    /\ reply = "please_reply_yes_or_no"
    /\ user_data # << >>

\* the tokens the claim names
AffirmativeTokens == {"yes", "yeah", "yep", "sure", "affirmative"}
NegativeTokens == {"no", "nope", "nah"}

(* C12: in CONFIRMATION with a draft stored, each of yes, yeah, yep, sure, *)
(* affirmative (trimmed, in any case) is taken for a yes and the draft is  *)
(* created, and each of no, nope, nah is taken for a no and the dialogue   *)
(* ends cancelled, in every bot that has the dialogue.                     *)
C12_TokensAccepted ==
    [][\A r \in Replies :
          user_data # << >> /\ Confirms(r) =>
              /\ StripLower(r) \in AffirmativeTokens =>
                    state' = END /\ reply' \in {"created", "creation_failed"}
              /\ StripLower(r) \in NegativeTokens =>
                    state' = END /\ reply' = "cancelled"]_vars

\* the event manager has asked again, its draft still waiting: of the replies
\* tried, only yeah, nope and maybe make it do so
C12_EventManagerAskedAgain ==
    /\ bot = "event_manager"
    /\ state = CONFIRMATION
    /\ reply = "please_reply_yes_or_no"
    /\ user_data # << >>

\* the draft one request alone gives, at time t (bot b)
EventDraftOf(cmd, t, b) ==
    IF cmd.shape = "structured"
    THEN [description |-> cmd.description, datetime |-> cmd.datetime[1],
          duration |-> cmd.duration]
    ELSE LET parsed == parse_natural_language(cmd.text, t, b)
         IN  [description |-> parsed.description, datetime |-> parsed.datetime,
              duration |-> parsed.duration]

TaskDraftOf(cmd, t) ==
    IF cmd.shape = "structured"
    THEN [description |-> cmd.description, due_date |-> cmd.datetime[1]]
    ELSE LET parsed == parse_task_language(cmd.text, t)
         IN  [description |-> parsed.description, due_date |-> parsed.due_date]

AislaveryDraftOf(text, t) ==
    LET parsed == parse_task_input(text, t)
    IN  [description |-> parsed.description, start_date |-> parsed.start_date,
         due_date |-> parsed.due_date, duration_days |-> parsed.duration_days]

C14_OnePromptPerCommitment ==
    \A p, q \in BagToSet(prompts) :
        /\ CopiesIn(p, prompts) <= 1
        /\ p.row = q.row => p = q

\* /habitcheck has asked again about a habit whose prompt is still unanswered
C14_HabitAskedTwice ==
    /\ bot = "habit_tracker"
    /\ \E p \in BagToSet(prompts) :
          /\ p.kind = "habit"
          /\ CopiesIn(p, prompts) = 2
          /\ p.row \in todays_habits(ledger, now)


\* the row the response to prompt p is written to, when it is still Pending
PendingRowOf(p) ==
    {i \in CASE p.kind = "event" -> event_response_row(ledger, p.ev)
             [] p.kind = "task" -> task_response_row(ledger, p.description, p.due)
             [] p.kind = "habit" /\ bot = "habit_tracker" ->
                    habit_response_row(ledger, p.ev)
             [] OTHER -> {} :
        StatusOf(i) = "Pending"}

\* C15: the user's answer to the outcome prompt of a Pending commitment, when
\* the ledger write goes through, sets the status to Done if it is the positive
\* answer and to Missed if it is the negative one, for events, tasks and habits.
C15_ResponseSetsStatus ==
    [][\A p \in BagToSet(prompts) : \A i \in PendingRowOf(p) :
          /\ \/ handle_event_response(p, "event_done", "none")
             \/ handle_task_response(p, "task_done", "none")
             \/ handle_habit_response(p, "habit_done", "none")
             => ledger'[i].status = "Done"
          /\ \/ handle_event_response(p, "event_missed", "none")
             \/ handle_task_response(p, "task_not_done", "none")
             \/ handle_habit_response(p, "habit_missed", "none")
             => ledger'[i].status = "Missed"]_vars

\* the one task has been answered "Not Yet" and its row still says Pending
C15_TaskStillPending ==
    /\ bot = "task_manager"
    /\ reply = "marked"
    /\ prompts = EmptyBag
    /\ Len(ledger) = 1
    /\ StatusOf(1) = "Pending"


\* C16: a creation whose ledger write goes through is not reported as failed,
\* whatever ids the scheduler already holds, and it leaves exactly one job under
\* the id of each job it is holding: registering under a taken id is a no-op.
C16_DuplicateIsNoOp ==
    [][Appended /\ NewRow.sheet \in {"Tasks", "Events"} =>
          /\ reply' # "creation_failed"
          /\ \A j \in jobs' : Cardinality(get_job(jobs', JobId(j))) = 1]_vars

\* the second of two tasks with one description and one due minute was
\* written to the sheet and reported as failed
C16_SecondTaskFailed ==
    /\ bot = "task_manager"
    /\ Len(ledger) = 2
    /\ ledger[1].description = ledger[2].description
    /\ ledger[1].when = ledger[2].when
    /\ reply = "creation_failed"
    /\ Cardinality({j \in jobs : j.fn = "send_task_reminder"}) = 1


\* C17: an auto-expiry job is registered only by the step in which the
\* event's remind job runs (the remind job is in the scheduler before the step
\* and gone after it), and its run time is strictly later than that job's.
C17_ExpiryAfterRemind ==
    [][jobs' # jobs =>
          \A j \in jobs' \ jobs :
              j.fn = "auto_update_event_status" =>
                  \E k \in jobs \ jobs' : /\ k.fn = "send_event_check"
                                          /\ k.ev = j.ev
                                          /\ k.run_time <= now
                                          /\ j.run_time > k.run_time]_vars

\* an event's prompt is out and its auto-expiry job is waiting
C17_ExpiryRegistered ==
    /\ bot = "event_manager"
    /\ \E j \in jobs : /\ j.fn = "auto_update_event_status"
                       /\ j.run_time > now
                       /\ \E p \in BagToSet(prompts) : p.kind = "event" /\ p.ev = j.ev


\* C18: the remind job a creation registers never has a run time before the
\* moment of the creation, whatever time the confirmed draft carries.
C18_RemindNotInPast ==
    [][jobs' # jobs => \A j \in RemindRegistered : j.run_time >= now]_vars

\* a task was confirmed and reported as created, and its reminder was
\* registered for a time already past
C18_TaskReminderInPast ==
    /\ bot = "task_manager"
    /\ reply = "created"
    /\ \E j \in jobs : /\ j.fn = "send_task_reminder"
                       /\ j.run_time < now
                       /\ j.row = Len(ledger)


\* C19: every row of the ledger has a description of at least two
\* whitespace-separated tokens, whichever input path created it.
C19_DescriptionHasTwoTokens ==
    \A i \in 1..Len(ledger) : SplitLen(ledger[i].description) >= 2

\* the structured /setevent with a one-word description was confirmed
C19_OneWordEvent ==
    /\ bot = "event_manager"
    /\ reply = "created"
    /\ \E i \in 1..Len(ledger) : /\ ledger[i].sheet = "Events"
                                 /\ ledger[i].description = gym
                                 /\ SplitLen(ledger[i].description) = 1


(***************************************************************************)
(* The parsers on their own: parse_natural_language of each bot applied    *)
(* to every text of up to MaxLen tokens, at the start of the clock and a   *)
(* step later.  The result is kept, with the text and the time of the      *)
(* call, in user_data.                                                     *)
(***************************************************************************)
Alphabet ==
    { Word("call"), Word("mom"), Stop("set"), Kw("now"), Kw("right now"),
      at_1, at_1_30, Dur("for", 2, "hours"), Dur("", 30, "m"),
      Dur("for", Inf, "hours"), Dur("lasting", 2, "hours") }

Texts == UNION {[1..k -> Alphabet] : k \in 0..MaxLen}

Parsers == {"event_manager", "bot", "task_manager"}

ExtractInit ==
    /\ bot \in Parsers
    /\ now \in {0, Step}
    /\ state = END
    /\ user_data = << >>
    /\ calendar = {}
    /\ ledger = << >>
    /\ jobs = {}
    /\ prompts = EmptyBag
    /\ reply = ""
    /\ USER_CHAT_IDS = {}

\* parse_natural_language(text) of event_manager_bot.py and of bot.py
extract_event(text) ==
    /\ bot \in {"event_manager", "bot"}
    /\ user_data = << >>
    /\ LET parsed == parse_natural_language(text, now, bot)
       IN  user_data' =
             IF extract_duration_raises(text)
             THEN << [text |-> text, at |-> now, raised |-> TRUE] >>
             ELSE << [text |-> text, at |-> now, raised |-> FALSE,
                      description |-> parsed.description,
                      when |-> parsed.datetime,
                      duration_minutes |-> parsed.duration,
                      extracted |-> extract_duration(text),
                      ambiguous |-> parsed.ambiguous] >>
    /\ UNCHANGED <<bot, now, state, calendar, ledger, jobs, prompts, reply,
                   USER_CHAT_IDS>>

\* parse_natural_language(text) of task_manager_bot.py
extract_task(text) ==
    /\ bot = "task_manager"
    /\ user_data = << >>
    /\ LET parsed == parse_task_language(text, now)
       IN  user_data' = << [text |-> text, at |-> now, raised |-> FALSE,
                            description |-> parsed.description,
                            when |-> parsed.due_date,
                            ambiguous |-> parsed.ambiguous] >>
    /\ UNCHANGED <<bot, now, state, calendar, ledger, jobs, prompts, reply,
                   USER_CHAT_IDS>>

\* one call in a behaviour: once a result is kept there is nothing more to do
ExtractNext ==
    /\ user_data = << >>
    /\ \E text \in Texts : extract_event(text) \/ extract_task(text)

ExtractSpec == ExtractInit /\ [][ExtractNext]_vars

\* the text has no date or time phrase for search_dates and no immediacy keyword
NoDatePhrase(text) ==
    \A i \in 1..Len(text) : text[i].k \notin {"date", "now"}

\* the parser came to its return statement (search_dates is called after
\* extract_duration, so in a call that raised nothing was searched or found)
Returned(x) == ~x.raised

\* C20: for a text in which no date or time phrase is found, and which has no
\* immediacy keyword, the parser returns ambiguous = true and the time of the
\* call as the time.
C20_NoDateIsAmbiguousNow ==
    \A i \in 1..Len(user_data) :
        Returned(user_data[i]) /\ NoDatePhrase(user_data[i].text) =>
            /\ user_data[i].ambiguous
            /\ user_data[i].when = user_data[i].at

\* a task text of two words and no date: the missing date alone makes it
\* ambiguous
C20_DatelessTaskText ==
    /\ bot = "task_manager"
    /\ user_data # << >>
    /\ user_data[1].text = call_mom
    /\ user_data[1].description = call_mom
    /\ user_data[1].ambiguous
    /\ user_data[1].when = now


\* the matches of the locator in a text without an immediacy keyword: its date
\* phrases, in the order of the text
Matches(text) == SelectSeq(text, LAMBDA tok : tok.k = "date")
HasKeyword(text) == \E i \in 1..Len(text) : text[i].k = "now"
\* the event parsers, which search only when there is no immediacy keyword
Searched(x) == Returned(x) /\ ~HasKeyword(x.text)
FutureMatches(x) == SelectSeq(Matches(x.text), LAMBDA tok : tok.n > x.at)

\* C21: when the locator returns exactly one match, that match lies strictly
\* after now, and the cleaned description has at least two tokens, the event
\* parsers return ambiguous = false and the match as the time.
C21_OneFutureMatchIsClear ==
    \A i \in 1..Len(user_data) :
        LET x == user_data[i]
        IN  /\ bot \in {"event_manager", "bot"}
            /\ Searched(x)
            /\ Len(Matches(x.text)) = 1
            /\ Len(FutureMatches(x)) = 1
            /\ SplitLen(x.description) >= 2
            => ~x.ambiguous /\ x.when = Matches(x.text)[1].n

\* "call mom at 1:30", parsed before 1:30
C21_CallMomAtHalfPastOne ==
    /\ bot = "event_manager"
    /\ user_data # << >>
    /\ user_data[1].text = call_mom \o << at_1_30 >>
    /\ ~user_data[1].raised
    /\ user_data[1].description = call_mom
    /\ ~user_data[1].ambiguous
    /\ user_data[1].when = 90


\* C22: for every input the event parser returns, with a time and a duration
\* that are defined, and an empty description comes only with ambiguous = true.
C22_ExtractorGuarantee ==
    \A i \in 1..Len(user_data) :
        LET x == user_data[i]
        IN  bot \in {"event_manager", "bot"} =>
                /\ Returned(x)
                /\ x.when \in Int
                /\ x.duration_minutes \in Nat
                /\ x.description = << >> => x.ambiguous

\* "call mom for <a number of more than 308 digits> hours": the parser raised
\* and returned nothing
C22_NothingReturned ==
    /\ bot = "event_manager"
    /\ user_data # << >>
    /\ user_data[1].text = call_mom \o << Dur("for", Inf, "hours") >>
    /\ user_data[1].raised

\* C23: extract_duration returns a value for every text, and the value is the
\* default when the text has no duration phrase.
C23_DurationTotal ==
    \A i \in 1..Len(user_data) :
        LET x == user_data[i]
        IN  bot \in {"event_manager", "bot"} =>
                /\ Returned(x)
                /\ x.extracted \in Nat
                /\ (\A k \in 1..Len(x.text) : x.text[k].k # "dur") =>
                       x.extracted = DEFAULT_DURATION

\* bot.py's extract_duration on "for <a number of more than 308 digits> hours"
C23_DurationRaised ==
    /\ bot = "bot"
    /\ user_data # << >>
    /\ user_data[1].text = << Dur("for", Inf, "hours") >>
    /\ user_data[1].raised


(***************************************************************************)
(* The callback handlers on their own.  The ledger is a Google sheet of    *)
(* the user's: between a prompt and its answer rows can be removed from    *)
(* it by hand, and the jobs of the scheduler are lost when the bot is      *)
(* restarted.  Here a handler is applied to one prompt and every sheet of  *)
(* up to MaxRows rows, with and without the job it cancels.                *)
(***************************************************************************)
Answering == {"event_manager", "task_manager", "habit_tracker", "bot"}

SheetRows(b) ==
    IF b = "event_manager"
    THEN {Row("Events", call_mom, st, 0, ev) :
            st \in {"Pending", "Done"}, ev \in {1, 2}}
    ELSE IF b = "task_manager"
    THEN {Row("Tasks", d, st, 90, 0) :
            d \in Descriptions, st \in {"Pending", "Done"}}
    ELSE {Row("Habits", morning_routine, st, 0, ev) :
            st \in {"Pending", "Missed"}, ev \in {1, 2}}
         \cup (IF b = "bot" THEN {Row("Tasks", gym, "Pending", 90, 0)} ELSE {})

PromptsOf(b) ==
    IF b = "event_manager" THEN {Prompt("event", 1, << >>, 0, 0)}
    ELSE IF b = "task_manager" THEN {Prompt("task", 0, call_mom, 90, 0)}
    ELSE IF b = "habit_tracker" THEN {Prompt("habit", 1, << >>, 0, 0)}
    ELSE {Prompt("habit", 1, << >>, 0, 0), Prompt("task", 0, call_mom, 0, 0)}

\* the job the handler cancels when it has written the status
CancelledJobs(b) ==
    IF b = "event_manager"
    THEN {Job("auto_update_event_status", 1, << >>, 0, Step, 0, 0)}
    ELSE IF b = "habit_tracker"
    THEN {Job("send_habit_check", 1, << >>, 0, Step, 0, 0)}
    ELSE {}

\* the answers come at time 0, before the expiry job is due; at time Step the
\* expiry job of the event manager is due and runs
ResolveInit ==
    /\ bot \in Answering
    /\ now \in {0, Step}
    /\ now = Step => bot = "event_manager"
    /\ state = END
    /\ user_data = << >>
    /\ calendar = {}
    /\ ledger \in UNION {[1..k -> SheetRows(bot)] : k \in 0..MaxRows}
    /\ jobs \in SUBSET CancelledJobs(bot)
    /\ now = Step => jobs = CancelledJobs(bot)
    /\ prompts \in {SetToBag({p}) : p \in PromptsOf(bot)}
    /\ reply = ""
    /\ USER_CHAT_IDS = {Chat}

ResolveNext ==
    \/ \E j \in jobs, fault \in {"none", "sheets"} : auto_update_event_status(j, fault)
    \/ \E p \in BagToSet(prompts), fault \in {"none", "sheets"} :
            \/ \E status \in {"event_done", "event_missed"} :
                  handle_event_response(p, status, fault)
            \/ \E status \in {"task_done", "task_not_done"} :
                  handle_task_response(p, status, fault)
            \/ \E status \in {"habit_done", "habit_missed"} :
                  handle_habit_response(p, status, fault)
            \/ \E action \in {"task_done", "task_snooze"} :
                  bot_handle_task_response(p, action, fault)
            \/ \E status \in {"habit_done", "habit_missed"} :
                  bot_handle_habit_response(p, status, fault)

ResolveSpec == ResolveInit /\ [][ResolveNext]_vars

\* no row of the sheet is a record of the commitment the prompt p names
NoRecord(p) ==
    \A i \in 1..Len(ledger) :
        CASE p.kind = "event" -> ~(ledger[i].sheet = "Events" /\ ledger[i].ev = p.ev)
          [] p.kind = "habit" -> ~(ledger[i].sheet = "Habits" /\ ledger[i].ev = p.ev)
          [] p.kind = "task" -> ~(ledger[i].sheet = "Tasks"
                                  /\ ledger[i].description = p.description)

\* the step is the handler's, answering the prompt p with the sheet readable
Resolves(p) ==
    \/ \E status \in {"event_done", "event_missed"} :
          handle_event_response(p, status, "none")
    \/ \E status \in {"task_done", "task_not_done"} :
          handle_task_response(p, status, "none")
    \/ \E status \in {"habit_done", "habit_missed"} :
          \/ handle_habit_response(p, status, "none")
          \/ bot_handle_habit_response(p, status, "none")
    \/ bot_handle_task_response(p, "task_done", "none")

\* C24: an answer that names a commitment with no record in the ledger writes
\* nothing to the ledger, leaves the scheduler as it is, and is answered with
\* "not found".
C24_UnknownIdIsNotFound ==
    [][\A p \in BagToSet(prompts) :
          NoRecord(p) /\ Resolves(p) =>
              /\ reply' = "not_found"
              /\ UNCHANGED <<ledger, jobs>>]_vars

\* the event's row is gone from a sheet that has other rows, its auto-expiry
\* job is still waiting, and the answer was reported as not found
C24_EventNotFound ==
    /\ bot = "event_manager"
    /\ reply = "not_found"
    /\ prompts = EmptyBag
    /\ Len(ledger) >= 1
    /\ \A i \in 1..Len(ledger) : ledger[i].ev = 2 /\ ledger[i].status = "Pending"
    /\ jobs # {}


\* the id of the job the answer to prompt p cancels
CancelId(p) ==
    << (IF p.kind = "event" THEN "auto_update_" ELSE "habit_check_"), p.ev, << >>, 0 >>

NewStatus(status) == IF status \in {"event_done", "habit_done"} THEN "Done" ELSE "Missed"

\* C25: when the job to cancel is not in the scheduler (it ran, it was
\* cancelled, it was never registered), the answer is still carried out: the
\* status is written to a row and stays, the scheduler is as it was, and the
\* user is told the new status.
C25_MissingJobTolerated ==
    [][\A p \in BagToSet(prompts) :
          ~NoRecord(p) /\ get_job(jobs, CancelId(p)) = {} =>
              \A status \in {"event_done", "event_missed", "habit_done", "habit_missed"} :
                  \/ /\ status \in {"event_done", "event_missed"}
                     /\ handle_event_response(p, status, "none")
                  \/ /\ status \in {"habit_done", "habit_missed"}
                     /\ handle_habit_response(p, status, "none")
                  => /\ reply' = "marked"
                     /\ jobs' = jobs
                     /\ \E i \in 1..Len(ledger) :
                           ledger' = SetStatus(ledger, i, NewStatus(status))]_vars

\* an event was marked Missed by its answer with no auto-expiry job to cancel
C25_MarkedWithoutJob ==
    /\ bot = "event_manager"
    /\ reply = "marked"
    /\ jobs = {}
    /\ prompts = EmptyBag
    /\ \E i \in 1..Len(ledger) : ledger[i].ev = 1 /\ ledger[i].status = "Missed"


\* C26: when a confirmed creation has written its row and the registration of
\* the remind job then fails, the row stays in the ledger as Pending, the
\* scheduler holds no job made for it, and the handler ends the dialogue with
\* a message to the user.
C26_SchedulingFailureIsNotFatal ==
    [][Appended /\ jobs' = jobs /\ bot \in {"event_manager", "task_manager"} =>
          /\ NewRow.status = "Pending"
          /\ \A j \in jobs' : j.row # Len(ledger')
          /\ state' = END
          /\ reply' = "creation_failed"]_vars

\* the second task's row is in the sheet as Pending, add_job has refused its
\* job, and the dialogue has ended with the error message
C26_RowWithoutReminder ==
    /\ bot = "task_manager"
    /\ state = END
    /\ reply = "creation_failed"
    /\ Len(ledger) = 2
    /\ ledger[2].status = "Pending"
    /\ \A j \in jobs : j.row # 2


\* C27: when the locator returns matches that lie strictly after now, the event
\* parsers return the first of them in the order of the text, which need not
\* be the earliest in time, and with more than one such match they also
\* return ambiguous = true.
C27_FirstDeclaredFutureMatch ==
    \A i \in 1..Len(user_data) :
        LET x == user_data[i]
        IN  /\ bot \in {"event_manager", "bot"}
            /\ Searched(x)
            /\ FutureMatches(x) # << >>
            => /\ x.when = Head(FutureMatches(x)).n
               /\ Len(FutureMatches(x)) > 1 => x.ambiguous

\* "at 1:30 ... at 1:00", parsed at midnight: the later time, named first, is
\* returned, and the text is ambiguous
C27_LaterTimeNamedFirst ==
    /\ bot = "event_manager"
    /\ user_data # << >>
    /\ user_data[1].text = << at_1_30, Word("call"), at_1 >>
    /\ user_data[1].at = 0
    /\ user_data[1].when = 90
    /\ user_data[1].ambiguous

\* C28: when the locator returns matches and none lies strictly after now,
\* every parser returns the first match as the time and ambiguous = true.
C28_PastMatchIsAmbiguous ==
    \A i \in 1..Len(user_data) :
        LET x == user_data[i]
        IN  /\ IF bot = "task_manager" THEN Returned(x) ELSE Searched(x)
            /\ Matches(x.text) # << >>
            /\ FutureMatches(x) = << >>
            => /\ x.when = Head(Matches(x.text)).n
               /\ x.ambiguous

\* the task parser on "call mom at 1:00" at 1:00: the time is not ahead, and
\* the text is not ambiguous
C28_TaskNotAheadIsClear ==
    /\ bot = "task_manager"
    /\ user_data # << >>
    /\ user_data[1].text = call_mom \o << at_1 >>
    /\ user_data[1].at = Step
    /\ user_data[1].when <= user_data[1].at
    /\ ~user_data[1].ambiguous

\* C29: a returned description that is empty or has fewer than two
\* whitespace-separated tokens comes with ambiguous = true, however the time
\* was found.
C29_ShortDescriptionIsAmbiguous ==
    \A i \in 1..Len(user_data) :
        LET x == user_data[i]
        IN  Returned(x) /\ SplitLen(x.description) < 2 => x.ambiguous

\* "call now": the time is settled by the keyword, the one-word description
\* makes the text ambiguous
C29_OneWordNow ==
    /\ bot = "event_manager"
    /\ user_data # << >>
    /\ user_data[1].text = << Word("call"), Kw("now") >>
    /\ user_data[1].description = << Word("call") >>
    /\ user_data[1].when = user_data[1].at
    /\ user_data[1].ambiguous

\* the words of the immediacy keywords
KeywordWords == {"now", "right", "right now", "immediately"}

\* no part of an immediacy keyword is in the description d
NoKeywordLeft(d) ==
    \A k \in 1..Len(d) : /\ d[k].k # "now"
                         /\ ~(d[k].k = "word" /\ d[k].w \in KeywordWords)

\* C30: for a text with an immediacy keyword the event parsers return now as
\* the time, whatever dates the text names, and a description from which the
\* keyword is gone; ambiguous is true only if that description has fewer than
\* two tokens.
C30_KeywordMeansNow ==
    \A i \in 1..Len(user_data) :
        LET x == user_data[i]
        IN  /\ bot \in {"event_manager", "bot"}
            /\ Returned(x)
            /\ HasKeyword(x.text)
            => /\ x.when = x.at
               /\ NoKeywordLeft(x.description)
               /\ x.ambiguous => SplitLen(x.description) < 2

\* "call right now": the word "right" of the keyword is in the description,
\* which so counts two tokens and is not ambiguous
C30_RightIsLeft ==
    /\ bot = "event_manager"
    /\ user_data # << >>
    /\ user_data[1].text = << Word("call"), Kw("right now") >>
    /\ user_data[1].description = << Word("call"), Word("right") >>
    /\ ~user_data[1].ambiguous


\* the phrases of a text that one pattern of the stated list matches
Phrases(text, pre) == SelectSeq(text, LAMBDA tok : tok.k = "dur" /\ tok.pre = pre)

\* the value of the first pattern that matches, in the stated order "for",
\* "in", "lasting", then the bare form
StatedDuration(text) ==
    LET hit == SelectSeq(<< "for", "in", "lasting", "" >>,
                         LAMBDA pre : Phrases(text, pre) # << >>)
    IN  IF hit = << >> THEN DEFAULT_DURATION
        ELSE ToMinutes(Head(Phrases(text, Head(hit))))

\* C31: extract_duration returns the value of the first pattern that matches
\* in the order "for N unit", "in N unit", "lasting N unit", bare "N unit":
\* a text with a "lasting" phrase and a different bare phrase gives the
\* duration of the "lasting" phrase, hours counted as 60 minutes.
C31_StatedPatternOrder ==
    \A i \in 1..Len(user_data) :
        bot \in {"event_manager", "bot"} /\ Returned(user_data[i]) =>
            user_data[i].extracted = StatedDuration(user_data[i].text)

\* "30 m" before "lasting 2 hours": the bare pattern is tried before the
\* "lasting" one and finds "30 m" first, so 30 minutes are returned, not 120
C31_BareBeforeLasting ==
    /\ bot = "event_manager"
    /\ user_data # << >>
    /\ user_data[1].text = << Dur("", 30, "m"), Word("call"), Dur("lasting", 2, "hours") >>
    /\ ~user_data[1].raised
    /\ user_data[1].extracted = 30
    /\ StatedDuration(user_data[1].text) = 120


\* C32: every duration phrase the extractor recognises, the short units "h"
\* and "m" included, is removed before the locator runs: no duration phrase,
\* and so not the one that gave duration_minutes, is in the returned
\* description.
C32_DurationPhrasesRemoved ==
    \A i \in 1..Len(user_data) :
        bot \in {"event_manager", "bot"} /\ Returned(user_data[i]) =>
            \A j \in 1..Len(user_data[i].description) :
                user_data[i].description[j].k # "dur"

\* bot.py reads 30 minutes from "call mom 30 m" and keeps "30 m" in the
\* description: its removal patterns have no unit "m"
C32_ShortUnitStays ==
    /\ bot = "bot"
    /\ user_data # << >>
    /\ user_data[1].text = call_mom \o << Dur("", 30, "m") >>
    /\ ~user_data[1].raised
    /\ user_data[1].duration_minutes = 30
    /\ user_data[1].description = call_mom \o << Dur("", 30, "m") >>


\* the rows of the event id that are still Pending
PendingRows(event_id) ==
    {i \in 1..Len(ledger) : /\ ledger[i].sheet = "Events"
                            /\ ledger[i].ev = event_id
                            /\ ledger[i].status = "Pending"}

\* C33: the expiry job writes Missed only to a record of its event that is
\* still Pending when it fires; when the event's record is Done or Missed, or
\* there is none, the job writes nothing and every row stays as it was.
C33_ExpiryWritesOnlyPending ==
    [][\A j \in jobs, fault \in {"none", "sheets"} :
          auto_update_event_status(j, fault) =>
              \/ ledger' = ledger
              \/ \E i \in PendingRows(j.ev) : ledger' = SetStatus(ledger, i, "Missed")]_vars

\* the expiry job of event 1, due at time Step, has run (it is gone from the
\* scheduler) and the one record of event 1 is Done as before
C33_DoneRowKept ==
    /\ bot = "event_manager"
    /\ now = Step
    /\ jobs = {}
    /\ ledger = << Row("Events", call_mom, "Done", 0, 1) >>


\* C34: an answer to the prompt of one commitment changes the status of no
\* record but the one created for that commitment, also when other records
\* have the same description and date or due time.
C34_OnlyTargetedRecord ==
    [][\A p \in BagToSet(prompts) :
          Resolves(p) =>
              /\ Len(ledger') = Len(ledger)
              /\ \A i \in 1..Len(ledger) :
                    i # p.row => ledger'[i].status = ledger[i].status]_vars


\* two tasks "call mom" due at 1:30: the prompt of the first (row 1) is still
\* unanswered, the prompt of the second has been answered Done, and it is the
\* first row that is Done while the second is Pending
C34_OtherTaskMarked ==
    /\ bot = "task_manager"
    /\ Len(ledger) = 2
    /\ ledger[1] = Row("Tasks", call_mom, "Done", 90, 0)
    /\ ledger[2] = Row("Tasks", call_mom, "Pending", 90, 0)
    /\ prompts = SetToBag({Prompt("task", 0, call_mom, 90, 1)})
    /\ reply = "marked"


\* C35: a creation writes the calendar event, the Pending record and the
\* remind job of the commitment, or none of them: a step that writes the
\* calendar event or the record writes all that the bot keeps for a
\* commitment (the task manager keeps no calendar event).
C35_CreationAllOrNothing ==
    [][(/\ bot \in {"event_manager", "habit_tracker", "task_manager"}
        /\ calendar' # calendar \/ Appended)
          => /\ Appended
             /\ \E j \in jobs' \ jobs : IsRemind(j) /\ j.row = Len(ledger')
             /\ bot # "task_manager" => calendar' # calendar]_vars

\* the event manager put the event into the calendar and the append to the
\* sheet failed: the calendar event stays, with no record and no remind job
C35_EventWithoutRecord ==
    /\ bot = "event_manager"
    /\ calendar = {1}
    /\ ledger = << >>
    /\ jobs = {}
    /\ state = END
    /\ reply = "creation_failed"


\* C36: "yes" received while a confirmation is awaited and no draft is
\* stored writes no calendar event, no record and no job, and ends the
\* dialogue; and when a confirmation has created the commitment no draft
\* stays stored.
C36_NoDraftNoCreation ==
    [][\A r \in Replies :
          Confirms(r) =>
              /\ StripLower(r) = "yes" /\ user_data = << >> =>
                    /\ UNCHANGED <<calendar, ledger, jobs>>
                    /\ state' = END
              /\ reply' = "created" => user_data' = << >>]_vars

\* the task manager has created the task "call mom" due at 1:30 and the
\* dialogue has ended: the draft of the task is still stored
C36_DraftKeptAfterCreated ==
    /\ bot = "task_manager"
    /\ state = END
    /\ reply = "created"
    /\ ledger = << Row("Tasks", call_mom, "Pending", 90, 0) >>
    /\ user_data = << [description |-> call_mom, due_date |-> 90] >>


(***************************************************************************)
(* The habit tracker over process starts.  The scheduler keeps its jobs in *)
(* memory and the __main__ block calls schedule_habits_two_days_ahead once *)
(* per start, so a start begins with the jobs that call registers and the  *)
(* sheet as the earlier runs left it.                                      *)
(***************************************************************************)
\* the clock stops in the second day, after the first day's habit and check
Horizon == MINUTES_PER_DAY + MaxTime

ScheduleInit ==
    /\ bot = "habit_tracker"
    /\ now \in {0, Step}
    /\ state = END
    /\ user_data = << >>
    /\ calendar = {}
    /\ ledger = << >>
    /\ jobs = schedule_habits_two_days_ahead(ledger, now)
    /\ prompts = EmptyBag
    /\ reply = ""
    /\ USER_CHAT_IDS = {}

\* the process is started again, after a run of five minutes or more (the
\* test habit of the last start has run): __main__ with an empty job store
main ==
    /\ bot = "habit_tracker"
    /\ \A j \in jobs : j.description # test_habit
    /\ jobs' = schedule_habits_two_days_ahead(ledger, now)
    /\ prompts' = EmptyBag
    /\ UNCHANGED <<bot, now, state, user_data, calendar, ledger, reply, USER_CHAT_IDS>>

\* time passes to the next run time of a job
NextRun ==
    /\ jobs # {}
    /\ Idle
    /\ now' = CHOOSE t \in {j.run_time : j \in jobs} :
                  \A u \in {j.run_time : j \in jobs} : t <= u
    /\ now' <= Horizon
    /\ UNCHANGED <<bot, state, user_data, calendar, ledger, jobs, prompts, reply,
                   USER_CHAT_IDS>>

ScheduleNext ==
    \/ main
    \/ NextRun
    \/ /\ Len(ledger) < MaxRows
       /\ Cardinality(calendar) < MaxRows
       /\ \E j \in jobs, fault \in {"none", "sheets"} : create_habit_event(j, fault)
    \/ \E j \in jobs, sent \in BOOLEAN : send_habit_check(j, sent)

ScheduleSpec == ScheduleInit /\ [][ScheduleNext]_vars


\* the creation jobs of the habits of the HABITS list
ConfiguredJobs(js) ==
    {j \in js : /\ j.fn = "create_habit_event"
                /\ j.description \in {h.description : h \in HABITS}}

\* no two Pending rows of the Habits tab have one description and one date
OnePendingPerDay(rows) ==
    \A i, k \in 1..Len(rows) :
        /\ rows[i].sheet = "Habits" /\ rows[k].sheet = "Habits"
        /\ rows[i].status = "Pending" /\ rows[k].status = "Pending"
        /\ rows[i].description = rows[k].description
        /\ DayOf(rows[i].when) = DayOf(rows[k].when)
        => i = k

\* C37: after schedule_habits_two_days_ahead there is at most one creation
\* job per configured habit and date and none for a habit and date that has
\* a row; and no habit has two Pending records of one day.
C37_NoDuplicateOccurrence ==
    [][/\ main =>
            /\ \A j, k \in ConfiguredJobs(jobs') :
                  j.description = k.description /\ j.key = k.key => j = k
            /\ \A j \in ConfiguredJobs(jobs') :
                  ~already_scheduled(ledger, j.description, j.key)
       /\ OnePendingPerDay(ledger')]_vars

\* the tracker was started twice on day 0: each start registered the test
\* habit five minutes ahead, and both jobs wrote a Pending row of that day
C37_TwoTestHabitRows ==
    /\ bot = "habit_tracker"
    /\ Len(ledger) = 2
    /\ \A i \in 1..2 : /\ ledger[i].description = test_habit
                       /\ ledger[i].status = "Pending"
                       /\ DayOf(ledger[i].when) = 0


\* C38: Snooze on a task reminder leaves the ledger as it is and registers
\* exactly one new reminder job, 15 minutes later; it never fails because of
\* a job id the scheduler already has.
C38_SnoozeAlwaysRegisters ==
    [][\A p \in BagToSet(prompts), fault \in {"none", "sheets"} :
          bot_handle_task_response(p, "task_snooze", fault) =>
              /\ ledger' = ledger
              /\ reply' = "snoozed"
              /\ \E j \in jobs' \ jobs :
                    /\ jobs' = jobs \cup {j}
                    /\ j.fn = "send_task_reminder"
                    /\ j.description = p.description
                    /\ j.run_time = now + SNOOZE]_vars


\* bot.py sent the reminders of two tasks "call mom" at 1:00 and both were
\* answered in that minute: one snooze job for 1:15 is registered, the last
\* answer got the error reply, and no prompt is left
C38_SecondSnoozeLost ==
    /\ bot = "bot"
    /\ now = 60
    /\ Len(ledger) = 2
    /\ \A i \in 1..2 : ledger[i].description = call_mom /\ ledger[i].status = "Pending"
    /\ prompts = EmptyBag
    /\ reply = "error"
    /\ {j \in jobs : j.fn = "send_task_reminder"} =
          {Job("send_task_reminder", 0, call_mom, 75, 75, 105, 2)}

=============================================================================
